---- MODULE Spec2Model ----
(***************************************************************************)
(* MailShield risk-scoring and decision pipeline.                          *)
(*                                                                         *)
(*   SpecDecide : decision_agent_lambda.py  (lambda_handler, _decide)      *)
(*   SpecScorer : context_analyzer_lambda.py (lambda_handler)              *)
(*   SpecCurve  : context_analyzer_lambda.py (lambda_handler, from the      *)
(*                signal vector on)                                        *)
(*   SpecTypo   : intel_lambda.py (_typosquat_features, _dl_dist)          *)
(*   SpecRisk   : intel_lambda.py (risk_score)                             *)
(*   SpecIntel  : intel_lambda.py (handler, with its caches and the graph) *)
(*   SpecPipeline : sender_intel_controller.py (handler, steps 5 to 8)     *)
(*   SpecTrust  : sender_intel_controller.py (_get_sender_trust)           *)
(*   SpecGraph  : intel_lambda.py (bump_sender_graph, interleaved calls)   *)
(*                                                                         *)
(* Python str values are sequences of one-character strings, so that       *)
(* str.lower() and str.upper() are computed and not assumed.  Confidence   *)
(* and content risk are integers in thousandths (0.85 is 850); the sender  *)
(* risk score is an integer on the 0..100 scale.  An optional number is    *)
(* <<>> (None) or <<n>>.                                                   *)
(***************************************************************************)
EXTENDS Integers, Sequences, FiniteSets, TLC

VARIABLES
    run,        \* decision agent: the run document of the invocation
    out,        \* decision agent: the returned package (NoOut before return)
    dpc,        \* decision agent: "invoked" | "returned"
    compact,    \* context analyzer: the compact email (subject, body)
    result,     \* context analyzer: the result document (NoOut before return)
    cpc,        \* context analyzer: "invoked" | "returned"
    sv,         \* context analyzer: a signal vector handed to the scoring
    sres,       \* context analyzer: what the scoring made of sv
    tq,         \* typosquat detector: candidate domain and configured domains
    tfeats,     \* typosquat detector: the returned features (NoOut before)
    dlin,       \* _dl_dist: the two strings of a call
    dlout,      \* _dl_dist: the returned distance (NoneN before return)
    fbag,       \* risk_score: the feature bag of a call
    rres,       \* risk_score: the returned score and notes (NoOut before)
    now,        \* sender risk aggregator: the clock, in seconds
    dom_cache,  \* sender risk aggregator: the domain cache item of the sender's domain
    ip_cache,   \* sender risk aggregator: the IP cache item of the client IP
    gdom,       \* sender graph: the item of the sender's domain
    gaddr,      \* sender graph: the item of the sender's address
    sender,     \* sender risk aggregator: the sender under evaluation
    ires,       \* sender risk aggregator: the response of the latest evaluation
    nev,        \* sender risk aggregator: evaluations so far
    prun,       \* pipeline: what the run starts from and what its environment does
    pdoc,       \* pipeline: the final run document (NoOut before the end)
    s3docs,     \* pipeline: keys of the run documents stored in S3
    hitl_queue, \* pipeline: items of the HITL queue table
    ppc,        \* pipeline: "invoked" | "returned"
    fstore,     \* trust lookup: the verdict history of the domain and the store's state
    ftrust,     \* trust lookup: the returned tier and counts (NoOut before)
    gstart,     \* sender graph: seen_count of the domain before the evaluations
    gpc,        \* sender graph: the position of each concurrent evaluation
    gl          \* sender graph: the locals of each concurrent evaluation

decideVars == <<run, out, dpc>>
scorerVars == <<compact, result, cpc>>
curveVars  == <<sv, sres>>
typoVars   == <<tq, tfeats, dlin, dlout>>
riskVars   == <<fbag, rres>>
intelVars  == <<now, dom_cache, ip_cache, gdom, gaddr, sender, ires, nev>>
pipeVars   == <<prun, pdoc, s3docs, hitl_queue, ppc>>
trustVars  == <<fstore, ftrust>>
graphVars  == <<gstart, gpc, gl>>

vars == <<decideVars, scorerVars, curveVars, typoVars, riskVars, intelVars, pipeVars, trustVars, graphVars>>

(***************************************************************************)
(* Python values                                                           *)
(***************************************************************************)
None == <<"None">>          \* a str-typed field holding None
NoneN == <<>>               \* a number-typed field holding None
NoOut == [returned |-> FALSE]

UPPERCASE == <<"A","B","C","D","E","F","G","H","I","J","K","L","M",
               "N","O","P","Q","R","S","T","U","V","W","X","Y","Z">>
LOWERCASE == <<"a","b","c","d","e","f","g","h","i","j","k","l","m",
               "n","o","p","q","r","s","t","u","v","w","x","y","z">>

LowerChar(c) ==
    IF \E i \in 1..26 : UPPERCASE[i] = c
    THEN LOWERCASE[CHOOSE i \in 1..26 : UPPERCASE[i] = c]
    ELSE c

UpperChar(c) ==
    IF \E i \in 1..26 : LOWERCASE[i] = c
    THEN UPPERCASE[CHOOSE i \in 1..26 : LOWERCASE[i] = c]
    ELSE c

lower(s) == [i \in 1..Len(s) |-> LowerChar(s[i])]
upper(s) == [i \in 1..Len(s) |-> UpperChar(s[i])]

\* Python's `x or d` on a str-typed value: None and "" are falsy.
StrOr(x, d) == IF x = None \/ Len(x) = 0 THEN d ELSE x

\* Python's `float(x or 0.0)` / `int(x or 0)` on an optional number.
NumOr0(x) == IF Len(x) = 0 THEN 0 ELSE x[1]

\* String literals of the decision agent.
ALLOW      == <<"A","L","L","O","W">>
QUARANTINE == <<"Q","U","A","R","A","N","T","I","N","E">>
IT_REVIEW  == <<"I","T","_","R","E","V","I","E","W">>
phishing   == <<"p","h","i","s","h","i","n","g">>
safe       == <<"s","a","f","e">>
spam       == <<"s","p","a","m">>
blocked    == <<"b","l","o","c","k","e","d">>
trusted    == <<"t","r","u","s","t","e","d">>
skipped    == <<"s","k","i","p","p","e","d">>
required   == <<"r","e","q","u","i","r","e","d">>
pending    == <<"p","e","n","d","i","n","g">>
EmptyStr   == <<>>

(***************************************************************************)
(* decision_agent_lambda.py                                                *)
(***************************************************************************)

\* _extract_signals: the fields of the run document that _decide reads.
_extract_signals(r) ==
    LET sender_risk == IF Len(r.summary_sender_risk) = 0
                       THEN NumOr0(r.sender_intel_risk)
                       ELSE NumOr0(r.summary_sender_risk)
        class0 == lower(StrOr(r.summary_classification, EmptyStr))
        conf == IF Len(r.summary_confidence) = 0
                THEN r.content_confidence_final
                ELSE r.summary_confidence
        classification == IF r.has_note0 /\ Len(class0) = 0
                          THEN lower(StrOr(r.note0_classification, EmptyStr))
                          ELSE class0
        prior_decision == StrOr(upper(StrOr(r.decision, EmptyStr)), ALLOW)
    IN [classification      |-> classification,
        confidence          |-> NumOr0(conf),
        sender_risk         |-> sender_risk,
        phi_entities        |-> NumOr0(r.phi_entities_detected),
        prior_decision      |-> prior_decision,
        feedback_trust_tier |-> r.trust_tier]

\* _pkg: the returned package.
_pkg(decision, risk, reasons, hitl_status) ==
    [returned |-> TRUE,
     decision |-> decision,
     risk     |-> risk,
     reasons  |-> reasons,
     hitl     |-> [status |-> hitl_status]]

\* RULE 0 guard: `if trust_tier == "blocked"`.
BlockedTier_typo(trust_tier) == trust_tier = <<"b","l","o","c","k">>
BlockedTier(trust_tier) == trust_tier = blocked

\* The `if trust_tier == "trusted"` block: the locals it leaves behind and
\* whether it returned.  Only the `elif is_safe` arm returns.
TrustedBlock_noReturn(trust_tier, is_phish, is_safe, confidence, prior_decision) ==
    IF trust_tier = trusted /\ is_phish /\ confidence > 900 THEN
        [returns |-> FALSE, decision |-> QUARANTINE, hitl_status |-> required,
         reasons |-> <<"Sender is normally trusted, but content is high-confidence phishing">>]
    ELSE IF trust_tier = trusted /\ is_safe THEN
        [returns |-> FALSE, decision |-> ALLOW, hitl_status |-> skipped,
         reasons |-> <<"Sender is trusted by IT history">>]
    ELSE
        [returns |-> FALSE, decision |-> prior_decision, hitl_status |-> EmptyStr,
         reasons |-> <<>>]
TrustedBlock(trust_tier, is_phish, is_safe, confidence, prior_decision) ==
    IF trust_tier = trusted /\ is_phish /\ confidence > 900 THEN
        [returns |-> FALSE, decision |-> QUARANTINE, hitl_status |-> required,
         reasons |-> <<"Sender is normally trusted, but content is high-confidence phishing">>]
    ELSE IF trust_tier = trusted /\ is_safe THEN
        [returns |-> TRUE, decision |-> ALLOW, hitl_status |-> skipped,
         reasons |-> <<"Sender is trusted by IT history">>]
    ELSE
        [returns |-> FALSE, decision |-> prior_decision, hitl_status |-> EmptyStr,
         reasons |-> <<>>]

\* RULE 1 guard: `if is_phish and confidence >= 0.85`.
HighConfPhish_strict(is_phish, confidence) == is_phish /\ confidence > 850
HighConfPhish(is_phish, confidence) == is_phish /\ confidence >= 850

\* RULE 2 guard: `elif sender_risk >= 85`.
ExtremeRisk(sender_risk) == sender_risk >= 85

\* RULE 3 guards: `elif is_phish and 0.50 <= confidence < 0.85` and
\* `elif is_safe and sender_risk >= 60`.
GrayZonePhish_strict(is_phish, confidence) ==
    is_phish /\ 500 < confidence /\ confidence < 850
GrayZonePhish(is_phish, confidence) ==
    is_phish /\ 500 <= confidence /\ confidence < 850
SafeHighRisk(is_safe, sender_risk) == is_safe /\ sender_risk >= 60

\* RULE 4 inner guard: `if is_safe and confidence >= 0.75 and sender_risk < 50`.
PhiConfident_as_rule5(is_safe, confidence, sender_risk) ==
    is_safe /\ confidence >= 800 /\ sender_risk < 50
PhiConfident(is_safe, confidence, sender_risk) ==
    is_safe /\ confidence >= 750 /\ sender_risk < 50

\* RULE 5 guard: `elif is_safe and confidence >= 0.80 and sender_risk < 50`.
HighConfSafe(is_safe, confidence, sender_risk) ==
    is_safe /\ confidence >= 800 /\ sender_risk < 50

\* The general rule cascade of _decide (RULE 1 .. DEFAULT).  `decision`,
\* `hitl_status` and `reasons` are the values the locals hold on entry; a
\* branch overwrites decision and hitl_status and appends to reasons.
GeneralRules(decision, hitl_status, reasons, is_phish, is_safe, has_phi, confidence, sender_risk) ==
    IF HighConfPhish(is_phish, confidence) THEN
        _pkg(QUARANTINE, sender_risk,
             Append(reasons, "High-confidence phishing detection"), skipped)
    ELSE IF ExtremeRisk(sender_risk) THEN
        _pkg(QUARANTINE, sender_risk,
             Append(reasons, "Sender risk is critical"), skipped)
    ELSE IF GrayZonePhish(is_phish, confidence) THEN
        _pkg(QUARANTINE, sender_risk,
             Append(reasons, "Suspected phishing with moderate confidence"),
             required)
    ELSE IF SafeHighRisk(is_safe, sender_risk) THEN
        _pkg(QUARANTINE, sender_risk,
             Append(reasons, "Content appears safe, but sender risk is high"),
             required)
    ELSE IF has_phi THEN
        IF PhiConfident(is_safe, confidence, sender_risk) THEN
            _pkg(ALLOW, sender_risk,
                 Append(reasons, "Contains PHI, confidence is high"), skipped)
        ELSE
            _pkg(ALLOW, sender_risk,
                 Append(reasons, "Contains PHI with lower confidence"), required)
    ELSE IF HighConfSafe(is_safe, confidence, sender_risk) THEN
        _pkg(ALLOW, sender_risk,
             Append(reasons, "High-confidence safe email"), skipped)
    ELSE IF decision = QUARANTINE THEN
        _pkg(decision, sender_risk,
             Append(reasons, "Baseline logic quarantined message"), required)
    ELSE
        _pkg(decision, sender_risk,
             Append(reasons, "Routine email"), skipped)

_decide(signals) ==
    LET classification == lower(StrOr(signals.classification, EmptyStr))
        confidence     == signals.confidence
        sender_risk    == signals.sender_risk
        phi_entities   == signals.phi_entities
        prior_decision == upper(StrOr(signals.prior_decision, ALLOW))
        trust_tier     == signals.feedback_trust_tier
        is_phish       == classification = phishing
        is_safe        == classification = safe
        has_phi        == phi_entities > 0
        tb == TrustedBlock(trust_tier, is_phish, is_safe, confidence,
                           prior_decision)
    IN  IF BlockedTier(trust_tier) THEN
            _pkg(QUARANTINE, sender_risk,
                 <<"Sender is explicitly blocked by previous IT verdict">>,
                 skipped)
        ELSE IF tb.returns THEN
            _pkg(tb.decision, sender_risk, tb.reasons, tb.hitl_status)
        ELSE
            GeneralRules(tb.decision, tb.hitl_status, tb.reasons,
                         is_phish, is_safe, has_phi, confidence, sender_risk)

(***************************************************************************)
(* Inputs of the decision agent                                            *)
(***************************************************************************)
ConfGrid == {0, 499, 500, 600, 749, 750, 799, 800, 849, 850, 900, 901, 990}
RiskGrid == {0, 49, 50, 59, 60, 84, 85, 100}

\* (summary.classification, has note0, note0.classification)
ClassInputs ==
    {<<c, FALSE, None>> : c \in {None, EmptyStr, safe, phishing, spam,
                                 <<"P","h","i","s","h","i","n","g">>}}
    \cup {<<None, TRUE, phishing>>}

\* (summary.confidence, content.confidence_final)
ConfInputs ==
    {<<(<<c>>), NoneN>> : c \in ConfGrid} \cup {<<NoneN, NoneN>>, <<NoneN, (<<950>>)>>}

\* (summary.sender_risk, sender_intel.risk)
RiskInputs ==
    {<<(<<k>>), NoneN>> : k \in RiskGrid} \cup {<<NoneN, (<<90>>)>>}

PhiInputs == {NoneN, <<0>>, <<2>>}

DecisionInputs == {None, ALLOW, QUARANTINE, IT_REVIEW,
                   <<"q","u","a","r","a","n","t","i","n","e">>}

TrustInputs == {None, blocked, trusted}

RunInputs ==
    {[summary_classification   |-> c[1],
      has_note0                |-> c[2],
      note0_classification     |-> c[3],
      summary_confidence       |-> f[1],
      content_confidence_final |-> f[2],
      summary_sender_risk      |-> k[1],
      sender_intel_risk        |-> k[2],
      phi_entities_detected    |-> p,
      decision                 |-> d,
      trust_tier               |-> t] :
        c \in ClassInputs, f \in ConfInputs, k \in RiskInputs,
        p \in PhiInputs, d \in DecisionInputs, t \in TrustInputs}

IdleRun == [idle |-> TRUE]
IdleCompact == [idle |-> TRUE]
IdleVector == [idle |-> TRUE]

\* The components that are not part of the invocation under study.
DecideIdle == run = IdleRun /\ out = NoOut /\ dpc = "idle"
ScorerIdle == compact = IdleCompact /\ result = NoOut /\ cpc = "idle"
CurveIdle  == sv = IdleVector /\ sres = NoOut
IdleTypo == [idle |-> TRUE]
IdlePair == [idle |-> TRUE]
TypoIdle == tq = IdleTypo /\ tfeats = NoOut /\ dlin = IdlePair /\ dlout = NoneN
IdleBag == [idle |-> TRUE]
RiskIdle == fbag = IdleBag /\ rres = NoOut
IdleSender == [idle |-> TRUE]
IntelIdle == now = 0 /\ dom_cache = [present |-> FALSE] /\ ip_cache = [present |-> FALSE] /\ gdom = [present |-> FALSE] /\ gaddr = [present |-> FALSE] /\ sender = IdleSender /\ ires = NoOut /\ nev = 0
IdlePipe == [idle |-> TRUE]
PipeIdle == prun = IdlePipe /\ pdoc = NoOut /\ s3docs = {} /\ hitl_queue = {} /\ ppc = "idle"
IdleStore == [idle |-> TRUE]
TrustIdle == fstore = IdleStore /\ ftrust = NoOut
GraphIdle == gstart = 0 /\ gpc = <<>> /\ gl = <<>>

\* decision_agent_lambda.lambda_handler
decision_lambda_handler ==
    /\ dpc = "invoked"
    /\ out' = _decide(_extract_signals(run))
    /\ dpc' = "returned"
    /\ UNCHANGED <<run, scorerVars, curveVars, typoVars, riskVars, intelVars, pipeVars, trustVars, graphVars>>

InitDecide ==
    /\ run \in RunInputs
    /\ out = NoOut
    /\ dpc = "invoked"
    /\ ScorerIdle /\ CurveIdle /\ TypoIdle /\ RiskIdle /\ IntelIdle /\ PipeIdle /\ TrustIdle /\ GraphIdle

NextDecide == decision_lambda_handler

SpecDecide == InitDecide /\ [][NextDecide]_vars

(***************************************************************************)
(* context_analyzer_lambda.py                                              *)
(*                                                                         *)
(* A text is a sequence of phrases (Vocab); `subject + " " + body` is the  *)
(* concatenation of the two sequences.  A pattern is named by its regular  *)
(* expression without the \b anchors; MatchTable gives, for each phrase,   *)
(* the patterns that match inside it and the matched substring             *)
(* (m.group(0)).  No pattern matches across two phrases of Vocab.          *)
(***************************************************************************)
URL_A == "http://a.example/x"

Vocab == {
    "login",
    "verify your account",
    "password",
    URL_A,
    "urgent",
    "failure to respond will result in suspension",
    "see attached file",
    "invoice",
    "thanks",
    "regards",
    "hello",
    "login to verify your account at http://a.example/x",
    "urgent action required: failure to respond will result in suspension" }

SUSPICIOUS_TERMS == <<
    "confirm", "verify", "update", "credential(s)?", "password",
    "bank( account)?", "secure", "portal",
    "click.*link", "follow.*link", "use.*link",
    "link below", "link provided", "via the link" >>
URGENCY_TERMS == <<
    "urgent", "action required", "immediately", "asap",
    "avoid delay(s)?", "final notice", "must", "required",
    "prevent.*(interruption|suspension|lockout)",
    "immediate processing", "delay(ed)? payment(s)?" >>
MANIPULATIVE_TONE_TERMS == <<
    "to avoid.*(delay|suspension|termination)",
    "failure to.*will result",
    "failure to.*(delay|issue|penalt(y|ies)|suspension|lockout|cancel)",
    "without.*(confirmation|response|action).*(delay|hold|impact)" >>
CREDENTIAL_INTENT_TERMS == <<
    "login", "sign in", "verify (?:your )?account",
    "enter (?:your )?(?:details|credentials|password)",
    "confirm (?:bank|account|details)", "reactivate" >>
FINANCIAL_TERMS == <<"payment", "invoice", "refund", "transfer", "billing">>
SUPPORT_TERMS == <<"support", "help", "assist", "issue", "ticket">>
SCHEDULING_TERMS == <<"meeting", "appointment", "calendar", "reschedule">>
ATTACHMENT_TERMS == <<
    "see attached", "open the attachment", "attached file",
    "attachment", "attached document", "attached payroll" >>

\* <<pattern, phrase, m.group(0)>> for every pattern that matches a phrase.
MatchTable == {
    <<"login", "login", "login">>,
    <<"verify (?:your )?account", "verify your account", "verify your account">>,
    <<"verify", "verify your account", "verify">>,
    <<"password", "password", "password">>,
    <<"urgent", "urgent", "urgent">>,
    <<"failure to.*will result",
      "failure to respond will result in suspension",
      "failure to respond will result">>,
    <<"failure to.*(delay|issue|penalt(y|ies)|suspension|lockout|cancel)",
      "failure to respond will result in suspension",
      "failure to respond will result in suspension">>,
    <<"see attached", "see attached file", "see attached">>,
    <<"attached file", "see attached file", "attached file">>,
    <<"invoice", "invoice", "invoice">>,
    <<"login", "login to verify your account at http://a.example/x", "login">>,
    <<"verify (?:your )?account",
      "login to verify your account at http://a.example/x",
      "verify your account">>,
    <<"verify", "login to verify your account at http://a.example/x", "verify">>,
    <<"urgent",
      "urgent action required: failure to respond will result in suspension",
      "urgent">>,
    <<"action required",
      "urgent action required: failure to respond will result in suspension",
      "action required">>,
    <<"required",
      "urgent action required: failure to respond will result in suspension",
      "required">>,
    <<"failure to.*will result",
      "urgent action required: failure to respond will result in suspension",
      "failure to respond will result">>,
    <<"failure to.*(delay|issue|penalt(y|ies)|suspension|lockout|cancel)",
      "urgent action required: failure to respond will result in suspension",
      "failure to respond will result in suspension">> }

MatchedPatterns == {m[1] : m \in MatchTable}

\* The matched substring of pattern p inside a phrase, "" for no match.
PhraseMatch ==
    [p \in MatchedPatterns, phrase \in Vocab |->
        IF \E m \in MatchTable : m[1] = p /\ m[2] = phrase
        THEN (CHOOSE m \in MatchTable : m[1] = p /\ m[2] = phrase)[3]
        ELSE ""]
Matches(p, phrase) ==
    /\ p \in MatchedPatterns
    /\ PhraseMatch[p, phrase] # ""
Group0(p, phrase) == PhraseMatch[p, phrase]

\* re.search(p, text, IGNORECASE): whether there is a match, and the
\* matched string of the leftmost one.
re_search_hit(p, text) == \E i \in 1..Len(text) : Matches(p, text[i])
re_search_group0(p, text) ==
    LET first == CHOOSE i \in 1..Len(text) :
                    /\ Matches(p, text[i])
                    /\ \A j \in 1..(i - 1) : ~Matches(p, text[j])
    IN Group0(p, text[first])

\* find_matches: list(set(matches)), the distinct matched strings.
find_matches(patterns, text) ==
    {re_search_group0(patterns[k], text) :
        k \in {n \in 1..Len(patterns) : re_search_hit(patterns[n], text)}}

\* The URLs inside one phrase, in order.
PhraseUrls(phrase) ==
    IF phrase = URL_A \/ phrase = "login to verify your account at http://a.example/x"
    THEN <<URL_A>> ELSE <<>>

\* extract_urls: re.findall, one entry per occurrence.
RECURSIVE extract_urls(_)
extract_urls(text) ==
    IF Len(text) = 0 THEN <<>>
    ELSE PhraseUrls(Head(text)) \o extract_urls(Tail(text))

Categories == {"credential_language", "suspicious_link", "urgency_language",
               "manipulative_tone", "attachment_reference"}

\* WEIGHTS, in thousandths.
WEIGHTS ==
    [credential_language  |-> 350,
     suspicious_link      |-> 400,
     urgency_language     |-> 200,
     manipulative_tone    |-> 200,
     attachment_reference |-> 150]

THRESHOLD_phishing == 500

\* round(a / b) for a >= 0, b > 0.
RoundDiv(a, b) == (2 * a + b) \div (2 * b)

Min(a, b) == IF a < b THEN a ELSE b
Max(a, b) == IF a > b THEN a ELSE b

\* clamp01 on a value in thousandths (already rounded to 3 decimals).
clamp01_noUpper(x) == Max(0, x)
clamp01(x) == Max(0, Min(1000, x))

classify_tone(body) ==
    IF find_matches(MANIPULATIVE_TONE_TERMS, body) # {} THEN "manipulative"
    ELSE IF \E i \in 1..Len(body) : body[i] = "thanks" THEN "friendly"
    ELSE IF \E i \in 1..Len(body) : body[i] = "regards" THEN "professional"
    ELSE "neutral"

classify_urgency(body) ==
    IF find_matches(URGENCY_TERMS, body) # {} THEN "urgent" ELSE "routine"

infer_intent(body) ==
    IF find_matches(CREDENTIAL_INTENT_TERMS, body) # {} THEN "credential_request"
    ELSE IF find_matches(FINANCIAL_TERMS, body) # {} THEN "financial_action"
    ELSE IF find_matches(SUPPORT_TERMS, body) # {} THEN "support_request"
    ELSE IF find_matches(SCHEDULING_TERMS, body) # {} THEN "scheduling"
    ELSE "informational"

score_features(subject, body) ==
    LET text == subject \o body
        urls == extract_urls(text)
    IN [credential_language  |->
            Cardinality(find_matches(CREDENTIAL_INTENT_TERMS \o SUSPICIOUS_TERMS, text)),
        urgency_language     |-> Cardinality(find_matches(URGENCY_TERMS, text)),
        manipulative_tone    |-> Cardinality(find_matches(MANIPULATIVE_TONE_TERMS, text)),
        suspicious_link      |-> Len(urls),
        attachment_reference |-> Cardinality(find_matches(ATTACHMENT_TERMS, text))]

\* The score of one category: 0 for no match, else
\* round(weight * min(1.0, 0.6 + 0.3 * (count - 1)), 3).
CategoryScore_uncapped(k, count) ==
    IF count = 0 THEN 0
    ELSE LET impact_factor == 600 + 300 * (count - 1)
         IN RoundDiv(WEIGHTS[k] * impact_factor, 1000)
CategoryScore(k, count) ==
    IF count = 0 THEN 0
    ELSE LET impact_factor == Min(1000, 600 + 300 * (count - 1))
         IN RoundDiv(WEIGHTS[k] * impact_factor, 1000)

compute_scores(signals) ==
    [k \in DOMAIN signals |-> CategoryScore(k, signals[k])]

classify(total) == IF total >= THRESHOLD_phishing THEN "phishing" ELSE "safe"

\* (d / 100) ** 0.8 in millionths, for d = 0 .. 160 (index d + 1); the
\* sum of the five weights is 1.3, so 160 covers every unclamped sum.
Pow08 == <<
    0, 25119, 43734, 60492, 76146, 91028, 105322, 119146, 132578, 145678,
    158489, 171046, 183377, 195504, 207445, 219216, 230832, 242303, 253640,
    264852, 275946, 286930, 297809, 308590, 319278, 329877, 340391, 350825,
    361182, 371465, 381678, 391822, 401902, 411918, 421874, 431772, 441613,
    451400, 461134, 470817, 480450, 490035, 499574, 509067, 518516, 527922,
    537287, 546611, 555895, 565141, 574349, 583521, 592656, 601756, 610822,
    619855, 628855, 637823, 646759, 655664, 664540, 673386, 682203, 690991,
    699752, 708485, 717192, 725872, 734526, 743155, 751759, 760338, 768893,
    777425, 785933, 794418, 802880, 811321, 819739, 828136, 836512, 844866,
    853200, 861514, 869808, 878082, 886337, 894572, 902789, 910987, 919166,
    927327, 935471, 943597, 951705, 959796, 967870, 975927, 983968, 991992,
    1000000, 1007992, 1015968, 1023929, 1031874, 1039804, 1047719, 1055619,
    1063504, 1071374, 1079230, 1087072, 1094900, 1102714, 1110514, 1118300,
    1126073, 1133832, 1141578, 1149311, 1157031, 1164738, 1172433, 1180114,
    1187784, 1195441, 1203085, 1210718, 1218339, 1225947, 1233544, 1241129,
    1248703, 1256265, 1263816, 1271356, 1278884, 1286401, 1293908, 1301403,
    1308888, 1316362, 1323825, 1331278, 1338721, 1346153, 1353575, 1360987,
    1368388, 1375780, 1383162, 1390534, 1397896, 1405249, 1412591, 1419925,
    1427249, 1434563, 1441869, 1449165, 1456451 >>

\* compute_confidence.  Every total the scorer produces is a multiple of
\* 0.005, so dist = |total - 0.5| / 0.5 is a whole number of hundredths.
compute_confidence(total, classification) ==
    IF classification = "phishing" THEN
        LET dist == (total - THRESHOLD_phishing) \div 5
        IN clamp01(RoundDiv(600 * 1000000 + 390 * Pow08[dist + 1], 1000000))
    ELSE
        LET dist == (THRESHOLD_phishing - total) \div 5
        IN clamp01(RoundDiv(550 * 1000000 + 440 * Pow08[dist + 1], 1000000))

agentic_reasoning(signals) ==
    LET cred_count == signals.credential_language
        link_count == signals.suspicious_link
        urg_count  == signals.urgency_language
        t1 == IF cred_count > 0 /\ link_count > 0
              THEN <<"CRITICAL: credential request combined with external links">>
              ELSE <<>>
        t2 == IF cred_count > 0 /\ link_count = 0
              THEN <<"credential request language without links">> ELSE <<>>
        t3 == IF urg_count > 0 THEN <<"urgency terminology">> ELSE <<>>
        t4 == IF link_count > 2 THEN <<"High density of links">>
              ELSE IF link_count > 0 THEN <<"Contains external links">>
              ELSE <<>>
        trace == t1 \o t2 \o t3 \o t4
    IN IF Len(trace) = 0 THEN <<"No significant phishing patterns detected">>
       ELSE trace

\* The critical-combination boost of lambda_handler.
CriticalBoost_missing(signals) == signals
CriticalBoost(signals) ==
    IF signals.credential_language > 0 /\ signals.suspicious_link > 0
    THEN [signals EXCEPT !.credential_language = Max(signals.credential_language, 2)]
    ELSE signals

\* sum(scores.values())
SumScores(scores) ==
    scores.credential_language + scores.suspicious_link
    + scores.urgency_language + scores.manipulative_tone
    + scores.attachment_reference

\* The result document of lambda_handler; scored_signals is the local
\* `signals` as passed to compute_scores (not part of the response).
analyze(subject, body) ==
    LET signals        == CriticalBoost(score_features(subject, body))
        scores         == compute_scores(signals)
        total_risk     == clamp01(SumScores(scores))
        classification == classify(total_risk)
    IN [returned         |-> TRUE,
        confidence_final |-> compute_confidence(total_risk, classification),
        intent           |-> infer_intent(body),
        tone             |-> classify_tone(body),
        urgency          |-> classify_urgency(body),
        classification   |-> classification,
        reasoning        |-> agentic_reasoning(signals),
        signals          |-> [k \in DOMAIN signals |-> signals[k] > 0],
        scores           |-> scores,
        total_risk       |-> total_risk,
        scored_signals   |-> signals]

MaxBody == 2

RECURSIVE SeqsUpTo(_, _)
SeqsUpTo(S, n) ==
    IF n = 0 THEN {<<>>}
    ELSE LET shorter == SeqsUpTo(S, n - 1)
         IN shorter \cup {Append(t, x) : t \in shorter, x \in S}

Subjects == {<<>>} \cup {<<x>> : x \in Vocab}
Bodies == SeqsUpTo(Vocab, MaxBody)

\* context_analyzer_lambda.lambda_handler
context_lambda_handler ==
    /\ cpc = "invoked"
    /\ result' = analyze(compact.subject, compact.body)
    /\ cpc' = "returned"
    /\ UNCHANGED <<compact, decideVars, curveVars, typoVars, riskVars, intelVars, pipeVars, trustVars, graphVars>>

InitScorer ==
    /\ compact \in [subject : Subjects, body : Bodies]
    /\ result = NoOut
    /\ cpc = "invoked"
    /\ DecideIdle /\ CurveIdle /\ TypoIdle /\ RiskIdle /\ IntelIdle /\ PipeIdle /\ TrustIdle /\ GraphIdle

NextScorer == context_lambda_handler

SpecScorer == InitScorer /\ [][NextScorer]_vars

\* lambda_handler from the signal vector on: the vector score_features
\* returned is drawn from all vectors with counts up to MaxCount.
MaxCount == 4

SignalVectors == [Categories -> 0..MaxCount]

score_vector(raw_signals) ==
    LET signals        == CriticalBoost(raw_signals)
        scores         == compute_scores(signals)
        total_risk     == clamp01(SumScores(scores))
        classification == classify(total_risk)
    IN [returned         |-> TRUE,
        scored_signals   |-> signals,
        scores           |-> scores,
        score_sum        |-> SumScores(scores),
        total_risk       |-> total_risk,
        classification   |-> classification,
        confidence_final |-> compute_confidence(total_risk, classification)]

context_score_signals ==
    /\ sv # IdleVector
    /\ sres = NoOut
    /\ sres' = score_vector(sv)
    /\ UNCHANGED <<sv, decideVars, scorerVars, typoVars, riskVars, intelVars, pipeVars, trustVars, graphVars>>

InitCurve ==
    /\ sv \in SignalVectors
    /\ sres = NoOut
    /\ DecideIdle /\ ScorerIdle /\ TypoIdle /\ RiskIdle /\ IntelIdle /\ PipeIdle /\ TrustIdle /\ GraphIdle

NextCurve == context_score_signals

SpecCurve == InitCurve /\ [][NextCurve]_vars

(***************************************************************************)
(* intel_lambda.py: Typosquat Detector                                     *)
(*                                                                         *)
(* Domains are Python str values (sequences of characters); the reason of  *)
(* a verdict is one of three literals and is kept as a TLA+ string.        *)
(***************************************************************************)
\* str.strip() on a string whose only whitespace is the space character.
RECURSIVE lstrip(_)
lstrip(s) == IF Len(s) > 0 /\ Head(s) = " " THEN lstrip(Tail(s)) ELSE s

RECURSIVE rstrip(_)
rstrip(s) ==
    IF Len(s) > 0 /\ s[Len(s)] = " " THEN rstrip(SubSeq(s, 1, Len(s) - 1)) ELSE s

strip(s) == rstrip(lstrip(s))

\* sub in s
Contains(s, sub) ==
    \E i \in 1..(Len(s) - Len(sub) + 1) : SubSeq(s, i, i + Len(sub) - 1) = sub

SetMax(S) == CHOOSE x \in S : \A y \in S : y <= x

_HOMOGLYPHS ==
    ("0" :> "o") @@ ("o" :> "0") @@ ("O" :> "0") @@
    ("1" :> "l") @@ ("l" :> "1") @@ ("I" :> "l") @@ ("i" :> "l") @@
    ("5" :> "s") @@ ("s" :> "5") @@ ("S" :> "5") @@
    ("8" :> "b") @@ ("b" :> "8") @@ ("B" :> "8")

\* s.replace(<<c1, c2>>, r), left to right, non-overlapping.
RECURSIVE ReplaceBigram(_, _, _, _)
ReplaceBigram(s, c1, c2, r) ==
    IF Len(s) < 2 THEN s
    ELSE IF s[1] = c1 /\ s[2] = c2
         THEN <<r>> \o ReplaceBigram(SubSeq(s, 3, Len(s)), c1, c2, r)
         ELSE <<s[1]>> \o ReplaceBigram(Tail(s), c1, c2, r)

_collapse_bigram_rn(s) ==
    ReplaceBigram(ReplaceBigram(ReplaceBigram(ReplaceBigram(
        s, "r", "n", "m"), "r", "N", "m"), "R", "n", "m"), "R", "N", "m")

_norm(s) ==
    LET t == _collapse_bigram_rn(s)
    IN lower([i \in 1..Len(t) |->
                 IF t[i] \in DOMAIN _HOMOGLYPHS THEN _HOMOGLYPHS[t[i]] ELSE t[i]])

Min4(a, b, c, d) == Min(Min(a, b), Min(c, d))

\* last.get(ch, 0)
LastGet(last, ch) == IF ch \in DOMAIN last THEN last[ch] ELSE 0

\* The transposition option of a cell; d[x][y] of the code is d[x + 1][y + 1].
Transposition_off(d, i1, j1, i, j) == d[1][1]
Transposition(d, i1, j1, i, j) ==
    d[i1 + 1][j1 + 1] + (i - i1 - 1) + 1 + (j - j1 - 1)

\* The inner loop of _dl_dist for row i: `row` holds d[i + 1][0 .. j].
RECURSIVE DLCells(_, _, _, _, _, _, _, _)
DLCells(a, b, i, d, last, j, db, row) ==
    IF j > Len(b) THEN row
    ELSE LET i1   == LastGet(last, b[j])
             j1   == db
             cost == IF a[i] = b[j] THEN 0 ELSE 1
             cell == Min4(d[i + 1][j + 1] + cost,
                          row[j + 1] + 1,
                          d[i + 1][j + 2] + 1,
                          Transposition(d, i1, j1, i, j))
         IN DLCells(a, b, i, d, last, j + 1,
                    IF cost = 0 THEN j ELSE db, Append(row, cell))

\* The outer loop of _dl_dist: d holds the rows d[0 .. i] of the code.
RECURSIVE DLRows(_, _, _, _, _)
DLRows(a, b, i, d, last) ==
    IF i > Len(a) THEN d[Len(a) + 2][Len(b) + 2]
    ELSE LET INF == Len(a) + Len(b)
             row == DLCells(a, b, i, d, last, 1, 0, <<INF, i>>)
         IN DLRows(a, b, i + 1, Append(d, row),
                   [c \in (DOMAIN last) \cup {a[i]} |->
                       IF c = a[i] THEN i ELSE last[c]])

_dl_dist(a, b) ==
    LET INF  == Len(a) + Len(b)
        row0 == [c \in 1..(Len(b) + 2) |-> INF]
        row1 == [c \in 1..(Len(b) + 2) |-> IF c = 1 THEN INF ELSE c - 2]
    IN DLRows(a, b, 1, <<row0, row1>>, <<>>)

_etld1(domain) ==
    LET s    == lower(domain)
        dots == {i \in 1..Len(s) : s[i] = "."}
    IN IF dots = {} THEN s
       ELSE LET before == {i \in dots : i < SetMax(dots)}
            IN IF before = {} THEN s
               ELSE SubSeq(s, SetMax(before) + 1, Len(s))

\* The de-duplication loop of _candidate_bases_for_typosquat.
RECURSIVE Dedup(_, _)
Dedup(bases, outp) ==
    IF Len(bases) = 0 THEN outp
    ELSE LET b == Head(bases)
         IN IF Len(b) > 0 /\ ~(\E k \in 1..Len(outp) : outp[k] = b)
            THEN Dedup(Tail(bases), Append(outp, b))
            ELSE Dedup(Tail(bases), outp)

\* domains: the configured organization domains followed by the brand
\* bases, as _load_org_patterns and _load_brand_bases hand them over.
_candidate_bases_for_typosquat(domains) ==
    Dedup([k \in 1..Len(domains) |-> _etld1(domains[k])], <<>>)

NotSuspect ==
    [suspect |-> FALSE, closest_to |-> EmptyStr, reason |-> ""]

\* The loop of _typosquat_features over the bases from index k on, and the
\* code after the loop.
RECURSIVE TyposquatLoop(_, _, _, _, _, _)
TyposquatLoop(bases, k, cand_etld, cand_norm, best, reasons) ==
    IF k > Len(bases) THEN
        IF best[1] <= 1
        THEN [suspect |-> TRUE, closest_to |-> best[2],
              reason |-> "edit_distance<=1"]
        ELSE IF "punycode_idn" \in reasons
        THEN [suspect |-> TRUE, closest_to |-> EmptyStr,
              reason |-> "punycode_idn"]
        ELSE NotSuspect
    ELSE LET base_etld == bases[k]
             base_norm == _norm(base_etld)
             XN        == <<"x", "n", "-", "-">>
             reasons2  == IF Contains(cand_etld, XN) \/ Contains(base_etld, XN)
                          THEN reasons \cup {"punycode_idn"} ELSE reasons
             dist      == _dl_dist(base_norm, cand_norm)
         IN IF cand_etld = base_etld
            THEN TyposquatLoop(bases, k + 1, cand_etld, cand_norm, best, reasons)
            ELSE IF base_norm = cand_norm /\ base_etld # cand_etld
            THEN [suspect |-> TRUE, closest_to |-> base_etld,
                  reason |-> "homoglyph_substitution"]
            ELSE TyposquatLoop(bases, k + 1, cand_etld, cand_norm,
                               IF dist < best[1] THEN <<dist, base_etld>> ELSE best,
                               reasons2)

_typosquat_features(candidate_domain, domains) ==
    LET cand  == strip(lower(StrOr(candidate_domain, EmptyStr)))
        bases == _candidate_bases_for_typosquat(domains)
    IN IF Len(cand) = 0 THEN NotSuspect
       ELSE IF Len(bases) = 0 THEN NotSuspect
       ELSE TyposquatLoop(bases, 1, _etld1(cand), _norm(_etld1(cand)),
                          <<999, EmptyStr>>, {})

\* Domains of the typosquat inputs.
D_paypal_com       == <<"p","a","y","p","a","l",".","c","o","m">>
D_PayPal_com       == <<"P","a","y","P","a","l",".","c","o","m">>
D_login_paypal_com == <<"l","o","g","i","n",".","p","a","y","p","a","l",".","c","o","m">>
D_paypa1_com       == <<"p","a","y","p","a","1",".","c","o","m">>
D_paypal_co        == <<"p","a","y","p","a","l",".","c","o">>
D_mycompany_com    == <<"m","y","c","o","m","p","a","n","y",".","c","o","m">>
D_myc0mpany_com    == <<"m","y","c","0","m","p","a","n","y",".","c","o","m">>
D_rnycompany_com   == <<"r","n","y","c","o","m","p","a","n","y",".","c","o","m">>
D_smile_com        == <<"s","m","i","l","e",".","c","o","m">>
D_smiles_com       == <<"s","m","i","l","e","s",".","c","o","m">>
D_www_smile_com    == <<"w","w","w",".","s","m","i","l","e",".","c","o","m">>
D_smlie_com        == <<"s","m","l","i","e",".","c","o","m">>
D_5mi1e_com        == <<"5","m","i","1","e",".","c","o","m">>
D_xn_paypal_com    == <<"x","n","-","-","p","y","p","a","l","-","4","v","e",".","c","o","m">>
D_example_org      == <<"e","x","a","m","p","l","e",".","o","r","g">>
D_localhost        == <<"l","o","c","a","l","h","o","s","t">>

CandidateDomains ==
    {None, EmptyStr, D_paypal_com, D_PayPal_com, D_login_paypal_com,
     D_paypa1_com, D_paypal_co, D_mycompany_com, D_myc0mpany_com,
     D_rnycompany_com, D_smile_com, D_smiles_com, D_smlie_com, D_5mi1e_com,
     D_xn_paypal_com, D_example_org, D_localhost}

\* The configured domains are lower-cased and stripped by the loaders.
BaseDomains ==
    {D_paypal_com, D_mycompany_com, D_smile_com, D_smiles_com, D_www_smile_com}

MaxBases == 2

\* Strings handed to _dl_dist on its own.
DLAlphabet == {"a", "b", "c"}
MaxLen == 3
DLStrings == SeqsUpTo(DLAlphabet, MaxLen)

\* intel_lambda._typosquat_features(candidate_domain)
typosquat_features ==
    /\ tq # IdleTypo
    /\ tfeats = NoOut
    /\ tfeats' = [returned |-> TRUE,
                  feats |-> _typosquat_features(tq.candidate_domain, tq.domains)]
    /\ UNCHANGED <<tq, dlin, dlout, decideVars, scorerVars, curveVars, riskVars, intelVars, pipeVars, trustVars, graphVars>>

\* intel_lambda._dl_dist(a, b)
dl_dist ==
    /\ dlin # IdlePair
    /\ dlout = NoneN
    /\ dlout' = <<_dl_dist(dlin.a, dlin.b)>>
    /\ UNCHANGED <<tq, tfeats, dlin, decideVars, scorerVars, curveVars, riskVars, intelVars, pipeVars, trustVars, graphVars>>

InitTypo ==
    /\ \/ /\ tq \in [candidate_domain : CandidateDomains,
                     domains : SeqsUpTo(BaseDomains, MaxBases)]
          /\ dlin = IdlePair
       \/ /\ tq = IdleTypo
          /\ dlin \in [a : DLStrings, b : DLStrings]
    /\ tfeats = NoOut
    /\ dlout = NoneN
    /\ DecideIdle /\ ScorerIdle /\ CurveIdle /\ RiskIdle /\ IntelIdle /\ PipeIdle /\ TrustIdle /\ GraphIdle

NextTypo == typosquat_features \/ dl_dist

SpecTypo == InitTypo /\ [][NextTypo]_vars

(***************************************************************************)
(* intel_lambda.py: Sender Risk Aggregator, risk_score                     *)
(*                                                                         *)
(* A feature bag is a record.  An optional bool is <<>> (None, or the key  *)
(* is absent: features.get gives None for both), <<TRUE>> or <<FALSE>>; an *)
(* optional int is <<>> or <<n>>; account_status is a str or None.         *)
(***************************************************************************)
NoneB == <<>>
deny    == <<"d","e","n","y">>
allow   == <<"a","l","l","o","w">>
ok      == <<"o","k">>

NoDelta == [delta |-> 0, notes |-> <<>>]

\* abuseipdb.score
RuleAbuse(features) ==
    LET s_abuse == features.abuseipdb_score
    IN IF s_abuse = NoneN THEN NoDelta
       ELSE IF s_abuse[1] >= 50
       THEN [delta |-> 40, notes |-> <<"high abuseipdb">>]
       ELSE IF s_abuse[1] > 0
       THEN [delta |-> s_abuse[1] \div 2, notes |-> <<"some abuse reports">>]
       ELSE NoDelta

RuleFirstTimeDomain(features) ==
    IF features.graph_first_time_domain = <<TRUE>>
    THEN [delta |-> 20, notes |-> <<"first-time domain">>] ELSE NoDelta

RuleFirstTimeAddr(features) ==
    IF features.graph_first_time_addr = <<TRUE>>
    THEN [delta |-> 10, notes |-> <<"first-time address">>] ELSE NoDelta

RuleSeenOften(features) ==
    LET seen == features.graph_domain_seen
    IN IF seen # NoneN /\ seen[1] >= 10
       THEN [delta |-> -5, notes |-> <<"domain seen often">>] ELSE NoDelta

RuleSecurityTxt(features) ==
    IF features.securitytxt_present = <<FALSE>>
    THEN [delta |-> 5, notes |-> <<"no security.txt">>] ELSE NoDelta

RuleCrtsh(features) ==
    LET crt == features.crtsh_count
    IN IF crt # NoneN /\ crt[1] < 5
       THEN [delta |-> 10, notes |-> <<"few certificates">>] ELSE NoDelta

RuleLinkedin(features) ==
    IF features.linkedin_presence = <<FALSE>>
    THEN [delta |-> 5, notes |-> <<"no LinkedIn org page">>] ELSE NoDelta

RuleOrgMismatch(features) ==
    IF /\ features.org_match = <<FALSE>>
       /\ features.org_reason \in {"email_regex_fail", "missing_email"}
    THEN [delta |-> 20, notes |-> <<"org identity mismatch">>] ELSE NoDelta

RuleTyposquat(features) ==
    IF features.typosquatting_suspect = <<TRUE>>
    THEN [delta |-> 30, notes |-> <<"typosquatting suspected">>] ELSE NoDelta

\* The additive rules in the order of the code.
AdditiveRules(features) ==
    <<RuleAbuse(features), RuleFirstTimeDomain(features),
      RuleFirstTimeAddr(features), RuleSeenOften(features),
      RuleSecurityTxt(features), RuleCrtsh(features), RuleLinkedin(features),
      RuleOrgMismatch(features), RuleTyposquat(features)>>

RECURSIVE SumDeltas(_)
SumDeltas(rules) ==
    IF Len(rules) = 0 THEN 0 ELSE Head(rules).delta + SumDeltas(Tail(rules))

RECURSIVE JoinNotes(_)
JoinNotes(rules) ==
    IF Len(rules) = 0 THEN <<>> ELSE Head(rules).notes \o JoinNotes(Tail(rules))

\* if features.get("whitelist.hit") is True: score = 0
WhitelistOverride_off(score, features) == [delta |-> score, notes |-> <<>>]
WhitelistOverride(score, features) ==
    IF features.whitelist_hit = <<TRUE>>
    THEN [delta |-> 0, notes |-> <<"whitelisted">>]
    ELSE [delta |-> score, notes |-> <<>>]

\* The account.status override; delta is the score after the override.
AccountOverride_cap(score, features) ==
    LET acct == lower(StrOr(features.account_status, EmptyStr))
    IN IF acct \in {blocked, deny}
       THEN [delta |-> Min(score, 90), notes |-> <<"account blocked">>]
       ELSE IF acct \in {allow, ok}
       THEN [delta |-> Min(score, 5), notes |-> <<"account ok">>]
       ELSE [delta |-> score, notes |-> <<>>]
AccountOverride(score, features) ==
    LET acct == lower(StrOr(features.account_status, EmptyStr))
    IN IF acct \in {blocked, deny}
       THEN [delta |-> Max(score, 90), notes |-> <<"account blocked">>]
       ELSE IF acct \in {allow, ok}
       THEN [delta |-> Min(score, 5), notes |-> <<"account ok">>]
       ELSE [delta |-> score, notes |-> <<>>]

risk_score_unclamped(features) == [score |-> AccountOverride(WhitelistOverride(SumDeltas(AdditiveRules(features)), features).delta, features).delta, notes |-> <<>>]
risk_score(features) ==
    LET rules == AdditiveRules(features)
        wl    == WhitelistOverride(SumDeltas(rules), features)
        ac    == AccountOverride(wl.delta, features)
    IN [score |-> Max(0, Min(100, ac.delta)),
        notes |-> JoinNotes(rules) \o wl.notes \o ac.notes]

\* Feature bags handed to risk_score.
AccountInputs ==
    {None, blocked, <<"D","e","n","y">>, allow, <<"q","u","a","r","a","n","t","i","n","e">>}

FeatureBags ==
    [abuseipdb_score         : {NoneN, <<0>>, <<25>>, <<50>>},
     graph_first_time_domain : {NoneB, <<TRUE>>, <<FALSE>>},
     graph_first_time_addr   : {NoneB, <<TRUE>>},
     graph_domain_seen       : {NoneN, <<10>>},
     securitytxt_present     : {NoneB, <<TRUE>>, <<FALSE>>},
     crtsh_count             : {NoneN, <<4>>, <<5>>},
     linkedin_presence       : {NoneB, <<FALSE>>},
     org_match               : {NoneB, <<FALSE>>},
     org_reason              : {"email_regex_fail"},
     typosquatting_suspect   : {<<TRUE>>, <<FALSE>>},
     whitelist_hit           : {NoneB, <<TRUE>>, <<FALSE>>},
     account_status          : AccountInputs]

\* intel_lambda.risk_score(features)
risk_score_call ==
    /\ fbag # IdleBag
    /\ rres = NoOut
    /\ rres' = [returned |-> TRUE] @@ risk_score(fbag)
    /\ UNCHANGED <<fbag, decideVars, scorerVars, curveVars, typoVars, intelVars, pipeVars, trustVars, graphVars>>

InitRisk ==
    /\ fbag \in FeatureBags
    /\ rres = NoOut
    /\ DecideIdle /\ ScorerIdle /\ CurveIdle /\ TypoIdle /\ IntelIdle /\ PipeIdle /\ TrustIdle /\ GraphIdle

NextRisk == risk_score_call

SpecRisk == InitRisk /\ [][NextRisk]_vars

(***************************************************************************)
(* intel_lambda.py: handler (Sender Risk Aggregator with its caches)       *)
(*                                                                         *)
(* One sender (one address, one domain, one client IP) is evaluated up to  *)
(* MaxEvals times while the clock advances.  The deployment has the three  *)
(* tables (DDB_DOM, DDB_IP, DDB_GRAPH) and the config bucket configured.   *)
(* Time is in seconds; the two time-to-live settings are read from the     *)
(* environment and are set to a few seconds here.  The RDAP and urlscan    *)
(* probes feed no scoring rule and are left out of the feature bag.        *)
(***************************************************************************)
DDB_TTL_DOM == 3
DDB_TTL_IP  == 2
MaxNow   == 3
MaxEvals == 2

NoItem == [present |-> FALSE]

\* time_left() in hundredths of a second at the eight checks of handler, in
\* program order: config (> 0.20), domain block (> 0.15), RDAP (> 0.20),
\* LinkedIn (> 0.20), security.txt (> 0.15), urlscan (> 0.20), crt.sh
\* (> 1.0), IP block (> 0.20).  The remaining time never grows.
BudgetLevels == {10, 18, 50, 150}
BudgetProfiles ==
    {p \in [1..8 -> BudgetLevels] : \A i \in 1..7 : p[i + 1] <= p[i]}

\* Which parts of handler a budget profile lets run.
Runs(p) ==
    [cfg      |-> p[1] > 20,
     dom      |-> p[2] > 15,
     linkedin |-> p[2] > 15 /\ p[4] > 20,
     sectxt   |-> p[2] > 15 /\ p[5] > 15,
     crtsh    |-> p[2] > 15 /\ p[7] > 100,
     ip       |-> p[8] > 20]
RunPatterns == {Runs(p) : p \in BudgetProfiles}

\* What a probe that runs can come back with.
SecOutcomes   == {"present", "absent", "failed"}
CrtOutcomes   == {"few", "failed"}
LiOutcomes    == {"found", "failed"}
AbuseOutcomes == {"listed", "failed", "no_key"}

\* securitytxt_present: False also when every request raised.
securitytxt_present(o) == IF o = "present" THEN <<TRUE>> ELSE <<FALSE>>

\* crtsh_issuances: None when the lookup failed.
crtsh_issuances(o) ==
    IF o = "few" THEN <<3>> ELSE NoneN

\* linkedin_presence_heuristic: False also when no page could be fetched.
linkedin_presence_heuristic(o) == IF o = "found" THEN <<TRUE>> ELSE <<FALSE>>

\* abuse_ip: None without an API key and when the lookup failed.
abuse_ip(o) ==
    IF o = "listed" THEN <<60>> ELSE NoneN

_expired_late(item, t) == item.ttl # 0 /\ item.ttl < t
_expired(item, t) == item.ttl # 0 /\ item.ttl <= t

\* The else branch of `if dom_item:` / `if ip_item:`: fresh lookups and the
\* cache write happen only without a usable item and with time left.
FreshLookups_always(hit, time_ok) == time_ok
FreshLookups(hit, time_ok) == ~hit /\ time_ok

\* What the environment does to one evaluation: whether the config and the
\* domain block run, and what each probe does ("skipped" for lack of time).
Call(runs, sec, crt, li, ab) ==
    [cfg      |-> runs.cfg,
     dom      |-> runs.dom,
     linkedin |-> IF runs.linkedin THEN li ELSE "skipped",
     sectxt   |-> IF runs.sectxt THEN sec ELSE "skipped",
     crtsh    |-> IF runs.crtsh THEN crt ELSE "skipped",
     abuse    |-> IF runs.ip THEN ab ELSE "skipped"]
Calls ==
    {Call(runs, sec, crt, li, ab) :
        runs \in RunPatterns, sec \in SecOutcomes, crt \in CrtOutcomes,
        li \in LiOutcomes, ab \in AbuseOutcomes}

\* The features the domain block leaves after a miss (absent key: None).
DomFresh(pr) ==
    [linkedin_presence   |-> IF pr.linkedin = "skipped" THEN NoneB
                             ELSE linkedin_presence_heuristic(pr.linkedin),
     securitytxt_present |-> IF pr.sectxt = "skipped" THEN NoneB
                             ELSE securitytxt_present(pr.sectxt),
     crtsh_count         |-> IF pr.crtsh = "skipped" THEN NoneN
                             ELSE crtsh_issuances(pr.crtsh)]

\* The item written after a miss; probes records what the writing
\* evaluation's probes did (the code stores no such attribute).
DomItem(f, t, pr) ==
    [present             |-> TRUE,
     ttl                 |-> t + DDB_TTL_DOM,
     securitytxt_present |-> IF f.securitytxt_present = NoneB THEN FALSE
                             ELSE f.securitytxt_present[1],
     crtsh_count         |-> f.crtsh_count,
     linkedin_presence   |-> f.linkedin_presence,
     written             |-> t,
     probes              |-> [linkedin |-> pr.linkedin, sectxt |-> pr.sectxt,
                             crtsh |-> pr.crtsh]]

\* The features read back from a cached domain item.
DomCached(item) ==
    [linkedin_presence   |-> item.linkedin_presence,
     securitytxt_present |-> <<item.securitytxt_present>>,
     crtsh_count         |-> item.crtsh_count]

\* The IP item: abuseipdb.score is stored only when it is not None.
IpItem(score, t, o) ==
    [present |-> TRUE, ttl |-> t + DDB_TTL_IP, abuseipdb_score |-> score,
     written |-> t, probe |-> o]

\* One ADD seen_count / SET last_seen, first_seen update of a graph item.
GraphUpdate_put(item, t) == [present |-> TRUE, seen_count |-> 1, first_seen |-> t, last_seen |-> t]
GraphUpdate(item, t) ==
    IF item.present
    THEN [item EXCEPT !.seen_count = @ + 1, !.last_seen = t]
    ELSE [present |-> TRUE, seen_count |-> 1, first_seen |-> t, last_seen |-> t]

\* The features bump_sender_graph returns from the two items it read back.
GraphFeatures(dom, addr) ==
    [graph_first_time_domain |-> <<dom.first_seen = dom.last_seen>>,
     graph_first_time_addr   |-> <<addr.first_seen = addr.last_seen>>,
     graph_domain_seen       |-> <<dom.seen_count>>]

\* The senders: what the allow-list, the account list, the organization
\* patterns and the typosquat detector say about the sender.
Senders ==
    {[whitelist_hit |-> <<FALSE>>, account_status |-> None,
      org_match |-> NoneB, org_reason |-> "no_patterns",
      typosquatting_suspect |-> <<FALSE>>],
     [whitelist_hit |-> <<TRUE>>, account_status |-> None,
      org_match |-> <<FALSE>>, org_reason |-> "email_regex_fail",
      typosquatting_suspect |-> <<TRUE>>]}

\* The response of the except branch of handler.
EmptyResponse == [returned |-> TRUE, ok |-> FALSE]

\* handler, lines 969-1186, for one evaluation at time t under the call c:
\* the response and the items left in the three tables.
Evaluate(s, t, dom_item0, ip_item0, gd, ga, c) ==
    LET dom_hit == dom_item0.present /\ ~_expired(dom_item0, t)
        dom_run == FreshLookups(dom_hit, c.dom)
        dom_f == IF dom_hit THEN DomCached(dom_item0)
                 ELSE IF dom_run THEN DomFresh(c)
                 ELSE [linkedin_presence |-> NoneB,
                       securitytxt_present |-> NoneB, crtsh_count |-> NoneN]
        dom_item1 == IF dom_run THEN DomItem(dom_f, t, c)
                     ELSE dom_item0
        ip_hit == ip_item0.present /\ ~_expired(ip_item0, t)
        ip_run == FreshLookups(ip_hit, c.abuse # "skipped")
        ip_f == IF ip_hit THEN ip_item0.abuseipdb_score
                ELSE IF ip_run THEN abuse_ip(c.abuse) ELSE NoneN
        ip_item1 == IF ip_run THEN IpItem(ip_f, t, c.abuse) ELSE ip_item0
        gd1 == GraphUpdate(gd, t)
        ga1 == GraphUpdate(ga, t)
        features ==
            [abuseipdb_score |-> ip_f,
             securitytxt_present |-> dom_f.securitytxt_present,
             crtsh_count |-> dom_f.crtsh_count,
             linkedin_presence |-> dom_f.linkedin_presence,
             org_match |-> s.org_match, org_reason |-> s.org_reason,
             typosquatting_suspect |-> s.typosquatting_suspect,
             whitelist_hit |-> IF c.cfg THEN s.whitelist_hit ELSE NoneB,
             account_status |-> IF c.cfg THEN s.account_status ELSE None]
            @@ GraphFeatures(gd1, ga1)
        r == risk_score(features)
        src == IF dom_hit THEN dom_item0.probes
               ELSE IF dom_run THEN c
               ELSE [linkedin |-> "skipped", sectxt |-> "skipped",
                     crtsh |-> "skipped"]
    IN  [response |->
            [returned |-> TRUE, ok |-> TRUE, features |-> features,
             score |-> r.score, notes |-> r.notes,
             cache_domain_hit |-> dom_hit, cache_ip_hit |-> ip_hit,
             wrote_dom |-> dom_run, wrote_ip |-> ip_run,
             probed |-> (IF dom_run
                         THEN {p \in {"linkedin", "sectxt", "crtsh"} : c[p] # "skipped"}
                         ELSE {})
                        \cup (IF ip_run THEN {"abuse"} ELSE {}),
             dom_expired |-> dom_item0.present /\ ~dom_hit,
             ip_expired |-> ip_item0.present /\ ~ip_hit,
             probes |-> [linkedin |-> src.linkedin, sectxt |-> src.sectxt,
                         crtsh |-> src.crtsh,
                         abuse |-> IF ip_hit THEN ip_item0.probe ELSE c.abuse,
                         cfg |-> IF c.cfg THEN "ran" ELSE "skipped"],
             at |-> t],
         dom |-> dom_item1, ip |-> ip_item1, gdom |-> gd1, gaddr |-> ga1]

\* handler: one evaluation of the sender, lines 952-1186.
intel_handler ==
    /\ nev < MaxEvals
    /\ \E c \in Calls :
         LET e == Evaluate(sender, now, dom_cache, ip_cache, gdom, gaddr, c)
         IN  /\ ires' = e.response
             /\ dom_cache' = e.dom
             /\ ip_cache' = e.ip
             /\ gdom' = e.gdom
             /\ gaddr' = e.gaddr
    /\ nev' = nev + 1
    /\ UNCHANGED <<now, sender>>
    /\ UNCHANGED <<decideVars, scorerVars, curveVars, typoVars, riskVars, pipeVars, trustVars, graphVars>>

\* handler: an exception is raised before anything is stored and is caught
\* by the except branch, lines 1188-1193.
intel_handler_raises ==
    /\ nev < MaxEvals
    /\ ires' = EmptyResponse
    /\ nev' = nev + 1
    /\ UNCHANGED <<now, dom_cache, ip_cache, gdom, gaddr, sender>>
    /\ UNCHANGED <<decideVars, scorerVars, curveVars, typoVars, riskVars, pipeVars, trustVars, graphVars>>

\* One second passes.
tick ==
    /\ now < MaxNow
    /\ now' = now + 1
    /\ UNCHANGED <<dom_cache, ip_cache, gdom, gaddr, sender, ires, nev>>
    /\ UNCHANGED <<decideVars, scorerVars, curveVars, typoVars, riskVars, pipeVars, trustVars, graphVars>>

InitIntel ==
    /\ now = 0
    /\ dom_cache = NoItem
    /\ ip_cache = NoItem
    /\ gdom = NoItem
    /\ gaddr = NoItem
    /\ sender \in Senders
    /\ ires = NoOut
    /\ nev = 0
    /\ DecideIdle /\ ScorerIdle /\ CurveIdle /\ TypoIdle /\ RiskIdle /\ PipeIdle /\ TrustIdle /\ GraphIdle

NextIntel == intel_handler \/ intel_handler_raises \/ tick

SpecIntel == InitIntel /\ [][NextIntel]_vars

(***************************************************************************)
(* sender_intel_controller.py: handler, steps 5 to 8 of one pipeline run   *)
(*                                                                         *)
(* The run starts with what steps 1 to 4 collected (the sender intel       *)
(* response, the content result, the trust tier, the PHI count) and with   *)
(* what the environment will do to the decision agent call, the S3 write   *)
(* and the HITL table write.                                               *)
(***************************************************************************)
RunKey == "runs/2026/01/01/msg1_120000.json"
RunId  == "msg1_120000"

\* _extract_risk_from_sender: the risk score of the sender intel response,
\* 0.0 when the response carries none (empty features).
_extract_risk_from_sender(sender_raw) == NumOr0(sender_raw.risk_score)

\* _compute_decision: the baseline decision from sender and content.
_compute_decision(sender_raw, content_result) ==
    LET rscore == _extract_risk_from_sender(sender_raw)
        classification == IF content_result.present
                          THEN StrOr(content_result.classification, EmptyStr)
                          ELSE EmptyStr
        confidence == IF content_result.present
                      THEN NumOr0(content_result.confidence_final) ELSE 0
        high_risk == rscore >= 70
        phish == classification = phishing /\ confidence >= 700
        reasons == (IF high_risk THEN <<"sender risk score >= 70">> ELSE <<>>)
                   \o (IF phish
                       THEN <<"content classified as phishing with confidence">>
                       ELSE <<>>)
    IN [decision       |-> IF high_risk \/ phish THEN QUARANTINE ELSE ALLOW,
        risk_score     |-> rscore,
        classification |-> classification,
        confidence     |-> confidence,
        reasons        |-> IF reasons = <<>>
                           THEN <<"no high-risk signals triggered">>
                           ELSE reasons]

\* log_doc as built at lines 505-558: the fields the decision agent reads.
LogDoc(r, base) ==
    [summary_classification   |-> base.classification,
     has_note0                |-> r.content_result.present,
     note0_classification     |-> IF r.content_result.present
                                  THEN r.content_result.classification
                                  ELSE None,
     summary_confidence       |-> <<base.confidence>>,
     content_confidence_final |-> IF r.content_result.present
                                  THEN r.content_result.confidence_final
                                  ELSE NoneN,
     summary_sender_risk      |-> <<base.risk_score>>,
     sender_intel_risk        |-> <<base.risk_score>>,
     phi_entities_detected    |-> r.phi_entities_detected,
     decision                 |-> base.decision,
     trust_tier               |-> r.trust_tier]

\* Step 6: what the controller holds in decision_agent_out.  "ok": the
\* package of the decision agent; "raises": the function raised and the
\* Lambda service answers with its error document; "invoke_fails": the
\* invocation raised; "unset": DECISION_FN is empty.
_call_decision_agent(agent, log_doc) ==
    CASE agent = "ok"     -> [kind |-> "package", pkg |-> _decide(_extract_signals(log_doc))]
      [] agent = "raises" -> [kind |-> "error"]
      [] OTHER            -> [kind |-> "empty"]

\* Lines 569-607: the overrides from a non-empty decision_agent_out and the
\* queue status.
Finalize(base, da) ==
    LET decision == IF da.kind = "package" /\ Len(da.pkg.decision) > 0
                    THEN da.pkg.decision ELSE base.decision
        reasons == IF da.kind = "package" /\ Len(da.pkg.reasons) > 0
                   THEN da.pkg.reasons ELSE base.reasons
        hitl_status == IF da.kind = "package"
                       THEN lower(StrOr(da.pkg.hitl.status, EmptyStr))
                       ELSE EmptyStr
    IN [returned     |-> TRUE,
        decision     |-> decision,
        reasons      |-> reasons,
        risk         |-> IF da.kind = "package" THEN da.pkg.risk
                         ELSE base.risk_score,
        hitl_status  |-> hitl_status,
        queue_status |-> IF hitl_status \in {required, pending} \/ decision = IT_REVIEW
                         THEN "pending"
                         ELSE IF decision = ALLOW THEN "auto_cleared"
                         ELSE "quarantined"]

\* enqueue_hitl_if_needed: the items it adds to the HITL table.
enqueue_hitl_if_needed(doc, hitl_table, log_key) ==
    IF hitl_table = "unset" THEN {}
    ELSE IF doc.hitl_status \notin {required, pending} /\ doc.decision # IT_REVIEW
    THEN {}
    ELSE IF hitl_table = "fails" THEN {}
    ELSE {[id |-> RunId, status |-> "pending", log_key |-> log_key]}

\* What steps 1 to 4 hand to step 5.
SenderInputs ==
    {[ok |-> FALSE, risk_score |-> NoneN]}
    \cup {[ok |-> TRUE, risk_score |-> <<k>>] : k \in {20, 70, 90}}
ContentInputs ==
    {[present |-> FALSE]}
    \cup {[present |-> TRUE, classification |-> c, confidence_final |-> <<f>>] :
            c \in {phishing, safe}, f \in {600, 700, 950}}
AgentOutcomes == {"ok", "raises", "invoke_fails", "unset"}
StoreOutcomes == {"ok", "fails", "unset"}

PipelineInputs ==
    [sender_raw            : SenderInputs,
     content_result        : ContentInputs,
     trust_tier            : TrustInputs,
     phi_entities_detected : {<<0>>, <<2>>},
     agent                 : AgentOutcomes,
     decisions_bucket      : StoreOutcomes,
     hitl_table            : StoreOutcomes]

\* sender_intel_controller.handler, lines 469-642
controller_handler ==
    /\ ppc = "invoked"
    /\ LET base == _compute_decision(prun.sender_raw, prun.content_result)
           da   == _call_decision_agent(prun.agent, LogDoc(prun, base))
           doc  == Finalize(base, da)
       IN /\ pdoc' = doc
          /\ IF prun.decisions_bucket = "ok"
             THEN /\ s3docs' = s3docs \cup {RunKey}
                  /\ hitl_queue' = hitl_queue \cup enqueue_hitl_if_needed(doc, prun.hitl_table, RunKey)
             ELSE UNCHANGED <<s3docs, hitl_queue>>
    /\ ppc' = "returned"
    /\ UNCHANGED <<prun, decideVars, scorerVars, curveVars, typoVars, riskVars, intelVars, trustVars, graphVars>>

InitPipeline ==
    /\ prun \in PipelineInputs
    /\ pdoc = NoOut
    /\ s3docs = {}
    /\ hitl_queue = {}
    /\ ppc = "invoked"
    /\ DecideIdle /\ ScorerIdle /\ CurveIdle /\ TypoIdle /\ RiskIdle /\ IntelIdle /\ TrustIdle /\ GraphIdle

NextPipeline == controller_handler

SpecPipeline == InitPipeline /\ [][NextPipeline]_vars

(***************************************************************************)
(* sender_intel_controller.py: _get_sender_trust                           *)
(*                                                                         *)
(* The feedback store holds the human verdicts of one sender domain,       *)
(* newest first.  A verdict is "allow", "block" or some other string.      *)
(***************************************************************************)
QUERY_LIMIT == 10
MaxHist  == 11
MaxMixed == 4

\* DDB.query(..., ScanIndexForward=False, Limit=10): the newest verdicts.
QueryItems(history) == SubSeq(history, 1, Min(Len(history), QUERY_LIMIT))

\* The counting loop over the items.
CountVerdict(items, v) == Cardinality({i \in 1..Len(items) : items[i] = v})

\* The tier from the two counts.
TrustTier_two(allows, blocks) == IF blocks > 0 THEN blocked ELSE IF allows >= 2 THEN trusted ELSE None
TrustTier(allows, blocks) ==
    IF blocks > 0 THEN blocked
    ELSE IF allows >= 3 THEN trusted
    ELSE None

\* _get_sender_trust(from_domain).  lookup is "ok", "fails" (the query
\* raises) or "unset" (no FEEDBACK_TABLE or no from_domain).
_get_sender_trust(history, lookup) ==
    IF lookup # "ok"
    THEN [returned |-> TRUE, tier |-> None, allows |-> 0, blocks |-> 0]
    ELSE LET items  == QueryItems(history)
             allows == CountVerdict(items, "allow")
             blocks == CountVerdict(items, "block")
         IN [returned |-> TRUE, tier |-> TrustTier(allows, blocks),
             allows |-> allows, blocks |-> blocks]

\* The verdict histories: every history of allows and blocks up to MaxHist
\* verdicts, and every history with other verdicts up to MaxMixed.
Histories ==
    SeqsUpTo({"allow", "block"}, MaxHist)
    \cup SeqsUpTo({"allow", "block", "escalate"}, MaxMixed)

get_sender_trust ==
    /\ fstore # IdleStore
    /\ ftrust = NoOut
    /\ ftrust' = _get_sender_trust(fstore.history, fstore.lookup)
    /\ UNCHANGED <<fstore, decideVars, scorerVars, curveVars, typoVars, riskVars, intelVars, pipeVars, graphVars>>

InitTrust ==
    /\ fstore \in [history : Histories, lookup : {"ok", "fails", "unset"}]
    /\ ftrust = NoOut
    /\ DecideIdle /\ ScorerIdle /\ CurveIdle /\ TypoIdle /\ RiskIdle /\ IntelIdle /\ PipeIdle /\ GraphIdle

NextTrust == get_sender_trust

SpecTrust == InitTrust /\ [][NextTrust]_vars

(***************************************************************************)
(* intel_lambda.py: bump_sender_graph under concurrent evaluations         *)
(*                                                                         *)
(* MaxProcs evaluations of emails from the same address run at once.  Each *)
(* takes the time, updates the domain item, updates the address item,      *)
(* reads the domain item back and reads the address item back; the four    *)
(* table calls are atomic and succeed, and calls of different evaluations  *)
(* interleave freely while the clock advances.                             *)
(***************************************************************************)
MaxProcs == 2
Procs == 1..MaxProcs

\* The locals of one evaluation before it starts; created records whether
\* its update of the domain item found no item.
NoLocals == [now |-> 0, created |-> FALSE, dom |-> NoItem, features |-> NoOut]

\* now = str(NOW())
graph_begin(p) ==
    /\ gpc[p] = "begin"
    /\ gl' = [gl EXCEPT ![p].now = now]
    /\ gpc' = [gpc EXCEPT ![p] = "update_dom"]
    /\ UNCHANGED <<gstart, now, gdom, gaddr>>

\* DDB.update_item on the domain item
graph_update_dom(p) ==
    /\ gpc[p] = "update_dom"
    /\ gdom' = GraphUpdate(gdom, gl[p].now)
    /\ gl' = [gl EXCEPT ![p].created = ~gdom.present]
    /\ gpc' = [gpc EXCEPT ![p] = "update_addr"]
    /\ UNCHANGED <<gstart, now, gaddr>>

\* DDB.update_item on the address item
graph_update_addr(p) ==
    /\ gpc[p] = "update_addr"
    /\ gaddr' = GraphUpdate(gaddr, gl[p].now)
    /\ gpc' = [gpc EXCEPT ![p] = "get_dom"]
    /\ UNCHANGED <<gstart, now, gdom, gl>>

\* dom = DDB.get_item(...)
graph_get_dom(p) ==
    /\ gpc[p] = "get_dom"
    /\ gl' = [gl EXCEPT ![p].dom = gdom]
    /\ gpc' = [gpc EXCEPT ![p] = "get_addr"]
    /\ UNCHANGED <<gstart, now, gdom, gaddr>>

\* addr = DDB.get_item(...) and the return statement
graph_get_addr(p) ==
    /\ gpc[p] = "get_addr"
    /\ gl' = [gl EXCEPT ![p].features = [returned |-> TRUE] @@ GraphFeatures(gl[p].dom, gaddr)]
    /\ gpc' = [gpc EXCEPT ![p] = "done"]
    /\ UNCHANGED <<gstart, now, gdom, gaddr>>

bump_sender_graph ==
    /\ \E p \in Procs :
         \/ graph_begin(p)
         \/ graph_update_dom(p)
         \/ graph_update_addr(p)
         \/ graph_get_dom(p)
         \/ graph_get_addr(p)
    /\ UNCHANGED <<dom_cache, ip_cache, sender, ires, nev>>
    /\ UNCHANGED <<decideVars, scorerVars, curveVars, typoVars, riskVars, pipeVars, trustVars>>

\* The domain is new, or it was seen once a second ago.
InitGraph ==
    /\ \/ now = 0 /\ gdom = NoItem /\ gaddr = NoItem /\ gstart = 0
       \/ /\ now = 1
          /\ gdom = [present |-> TRUE, seen_count |-> 1, first_seen |-> 0, last_seen |-> 0]
          /\ gaddr = gdom
          /\ gstart = 1
    /\ gpc = [p \in Procs |-> "begin"]
    /\ gl = [p \in Procs |-> NoLocals]
    /\ dom_cache = NoItem /\ ip_cache = NoItem /\ sender = IdleSender
    /\ ires = NoOut /\ nev = 0
    /\ DecideIdle /\ ScorerIdle /\ CurveIdle /\ TypoIdle /\ RiskIdle /\ PipeIdle /\ TrustIdle

NextGraph == bump_sender_graph \/ tick

SpecGraph == InitGraph /\ [][NextGraph]_vars

(***************************************************************************)
(* Decision Engine properties (SpecDecide)                                 *)
(***************************************************************************)

\* The signals _decide was called with in this invocation.
sig == _extract_signals(run)

Returned == dpc = "returned"
SigPhish == sig.classification = phishing
SigSafe  == sig.classification = safe
NoTier   == sig.feedback_trust_tier = None

\* The spec's rules 0-5 as conditions on the input alone.
SpecRule0 == sig.feedback_trust_tier = blocked
SpecRule1 == sig.feedback_trust_tier = trusted
             /\ ((SigPhish /\ sig.confidence > 900) \/ SigSafe)
SpecRule2 == SigPhish /\ sig.confidence >= 850
SpecRule3 == sig.sender_risk >= 85
SpecRule4 == SigPhish /\ sig.confidence >= 500 /\ sig.confidence < 850
SpecRule5 == SigSafe /\ sig.sender_risk >= 60
SpecRule7 == SigSafe /\ sig.confidence >= 800 /\ sig.sender_risk < 50
NoRule0to5 == ~SpecRule0 /\ ~SpecRule1 /\ ~SpecRule2 /\ ~SpecRule3
              /\ ~SpecRule4 /\ ~SpecRule5

\* C1: a "blocked" trust tier always yields QUARANTINE with hitl "skipped",
\* whatever classification, confidence, risk, PHI count and prior decision.
C1_BlockedQuarantines ==
    (Returned /\ sig.feedback_trust_tier = blocked)
        => (out.decision = QUARANTINE /\ out.hitl.status = skipped)

\* C1 witness: blocked tier with safe, confidence 0.99, risk 0 was decided.
C1_Witness ==
    /\ Returned
    /\ sig.feedback_trust_tier = blocked
    /\ SigSafe /\ sig.confidence = 990 /\ sig.sender_risk = 0
    /\ out.decision = QUARANTINE

\* C2: trusted tier, phishing, confidence > 0.90 returns QUARANTINE with
\* hitl "required".
C2_TrustedPhishRequiresHitl ==
    (Returned /\ sig.feedback_trust_tier = trusted /\ SigPhish
        /\ sig.confidence > 900)
        => (out.decision = QUARANTINE /\ out.hitl.status = required)

\* C3: trusted tier and classification safe returns ALLOW with hitl
\* "skipped" and carries the trusted-sender reason only (no general rule
\* ran), whatever the risk, PHI count and prior decision.
C3_TrustedSafeAllows ==
    (Returned /\ sig.feedback_trust_tier = trusted /\ SigSafe)
        => /\ out.decision = ALLOW
           /\ out.hitl.status = skipped
           /\ out.reasons = <<"Sender is trusted by IT history">>

\* C3 witness: trusted and safe with risk >= 85, PHI present and a prior
\* QUARANTINE was allowed.
C3_Witness ==
    /\ Returned
    /\ sig.feedback_trust_tier = trusted /\ SigSafe
    /\ sig.sender_risk >= 85 /\ sig.phi_entities > 0
    /\ sig.prior_decision = QUARANTINE
    /\ out.decision = ALLOW

\* C4: with no trust tier, (phishing with confidence >= 0.85) or sender
\* risk >= 85 returns QUARANTINE with hitl "skipped".
C4_AutoQuarantine ==
    (Returned /\ NoTier /\ (SpecRule2 \/ SpecRule3))
        => (out.decision = QUARANTINE /\ out.hitl.status = skipped)

\* C4 witness: phishing at exactly 0.85 with risk 0 and no tier was decided.
C4_Witness ==
    /\ Returned /\ NoTier
    /\ SigPhish /\ sig.confidence = 850 /\ sig.sender_risk = 0
    /\ out.hitl.status = skipped

\* C5: with no trust tier and sender risk < 85, (phishing with confidence in
\* [0.50, 0.85)) or (safe with sender risk >= 60) returns QUARANTINE with
\* hitl "required".
C5_GrayZoneRequiresHitl ==
    (Returned /\ NoTier /\ sig.sender_risk < 85 /\ (SpecRule4 \/ SpecRule5))
        => (out.decision = QUARANTINE /\ out.hitl.status = required)

\* C5 witness: phishing at exactly 0.50 with risk 0 and no tier was decided.
C5_Witness ==
    /\ Returned /\ NoTier
    /\ SigPhish /\ sig.confidence = 500 /\ sig.sender_risk = 0
    /\ out.hitl.status = required

\* C6: when rules 0-5 do not match and the PHI count is > 0 the verdict is
\* ALLOW; hitl is "skipped" if safe, confidence >= 0.75 and risk < 50, and
\* "required" otherwise.
C6_PhiAllows ==
    (Returned /\ NoRule0to5 /\ sig.phi_entities > 0)
        => /\ out.decision = ALLOW
           /\ out.hitl.status =
                IF SigSafe /\ sig.confidence >= 750 /\ sig.sender_risk < 50
                THEN skipped ELSE required

\* C6 witness: PHI present, prior decision QUARANTINE, safe at exactly 0.75
\* and risk < 50 was allowed without review.
C6_Witness ==
    /\ Returned /\ NoRule0to5 /\ sig.phi_entities > 0
    /\ sig.prior_decision = QUARANTINE
    /\ SigSafe /\ sig.confidence = 750 /\ sig.sender_risk < 50
    /\ out.decision = ALLOW /\ out.hitl.status = skipped

\* C7: in the default branch the result is QUARANTINE/"required" if the
\* prior decision was QUARANTINE and ALLOW/"skipped" for every other prior
\* decision value.
C7_DefaultBranch ==
    (Returned /\ NoRule0to5 /\ sig.phi_entities <= 0 /\ ~SpecRule7)
        => IF sig.prior_decision = QUARANTINE
           THEN out.decision = QUARANTINE /\ out.hitl.status = required
           ELSE out.decision = ALLOW /\ out.hitl.status = skipped

\* C8: the returned reasons list holds exactly one reason.
C8_OneReason == Returned => Len(out.reasons) = 1

\* C9: the output is well-typed: verdict in {ALLOW, QUARANTINE}, hitl status
\* in {"skipped", "required"}, risk equal to the sender risk input.
C9_WellTyped ==
    Returned => /\ out.decision \in {ALLOW, QUARANTINE}
                /\ out.hitl.status \in {skipped, required}
                /\ out.risk = sig.sender_risk

(***************************************************************************)
(* Lexical Signal Scorer properties (SpecScorer)                           *)
(***************************************************************************)

\* The raw match counts of this invocation's text.
raw == score_features(compact.subject, compact.body)

\* C10: when the credential_language count and the suspicious_link count
\* are both > 0, the count used for scoring is at least 2, its score is at
\* least 0.315 and the email is classified phishing.
C10_CriticalCombination ==
    (cpc = "returned" /\ raw.credential_language > 0 /\ raw.suspicious_link > 0)
        => /\ result.scored_signals.credential_language >= 2
           /\ result.scores.credential_language >= 315
           /\ result.classification = "phishing"

\* C10 witness: one credential match and one link (raw counts 1 and 1) were
\* scored and classified phishing.
C10_Witness ==
    /\ cpc = "returned"
    /\ raw.credential_language = 1 /\ raw.suspicious_link = 1
    /\ result.scores.credential_language = 315
    /\ result.classification = "phishing"

(***************************************************************************)
(* Scoring curve properties (SpecCurve)                                    *)
(***************************************************************************)
Scored == sres # NoOut

\* C11: a category with weight w and n matches scores 0 for n = 0, 0.6 w
\* for n = 1, 0.9 w for n = 2 and w for n >= 3; the score never exceeds the
\* weight and does not decrease when n grows by one.
C11_IntensityCurve ==
    Scored =>
        \A k \in Categories :
            LET n == sres.scored_signals[k]
                w == WEIGHTS[k]
                s == sres.scores[k]
            IN /\ (n = 0) => s = 0
               /\ (n = 1) => 10 * s = 6 * w
               /\ (n = 2) => 10 * s = 9 * w
               /\ (n >= 3) => s = w
               /\ s <= w
               /\ s <= compute_scores([sres.scored_signals EXCEPT ![k] = n + 1])[k]

\* C11 witness: a vector with 0, 1, 2, 3 and 4 matches was scored.
C11_Witness ==
    /\ Scored
    /\ sres.scored_signals.credential_language = 0
    /\ sres.scored_signals.urgency_language = 1
    /\ sres.scores.urgency_language = 120
    /\ sres.scored_signals.manipulative_tone = 2
    /\ sres.scores.manipulative_tone = 180
    /\ sres.scored_signals.attachment_reference = 3
    /\ sres.scores.attachment_reference = 150
    /\ sres.scored_signals.suspicious_link = 4
    /\ sres.scores.suspicious_link = 400

\* C12: total_risk and confidence_final lie in [0, 1] for every signal
\* vector, also when the sum of the category scores exceeds 1.
C12_ClampedOutputs ==
    Scored => /\ sres.total_risk \in 0..1000
              /\ sres.confidence_final \in 0..1000

\* C12 witness: the category scores of a scored vector add up to more
\* than 1 and total_risk is 1.
C12_Witness ==
    /\ Scored
    /\ sres.score_sum > 1000
    /\ sres.total_risk = 1000

(***************************************************************************)
(* Typosquat Detector properties (SpecTypo)                                *)
(***************************************************************************)
TypoReturned == tfeats # NoOut
verdict == tfeats.feats

\* The registrable domain of the candidate and the protected base set.
CandGiven == StrOr(tq.candidate_domain, EmptyStr) # EmptyStr
CandEtld  == _etld1(strip(lower(StrOr(tq.candidate_domain, EmptyStr))))
BaseList  == _candidate_bases_for_typosquat(tq.domains)
BaseSet   == {BaseList[k] : k \in 1..Len(BaseList)}

\* C13: a candidate whose registrable domain equals a protected base is
\* reported not suspicious, whatever the other bases of the set are.
C13_ExactMatchWins ==
    (TypoReturned /\ CandGiven /\ CandEtld \in BaseSet) => ~verdict.suspect

\* The canonical form the confusable characters collapse to: rn -> m, then
\* 0 -> o, 1 and i -> l, 5 -> s, 8 -> b.
Canonical(s) ==
    LET t == ReplaceBigram(lower(s), "r", "n", "m")
    IN [i \in 1..Len(t) |->
           CASE t[i] = "0" -> "o"
             [] t[i] \in {"1", "i"} -> "l"
             [] t[i] = "5" -> "s"
             [] t[i] = "8" -> "b"
             [] OTHER -> t[i]]

ConfusableWith(cand, base) == cand # base /\ Canonical(cand) = Canonical(base)

\* C14: a candidate that differs from a base only by confusable characters
\* has the normalized form of that base and is reported suspect with reason
\* homoglyph_substitution.
C14_HomoglyphDetected ==
    (TypoReturned /\ CandGiven /\ CandEtld \notin BaseSet) =>
        \A b \in BaseSet :
            ConfusableWith(CandEtld, b) =>
                /\ _norm(CandEtld) = _norm(b)
                /\ verdict.suspect
                /\ verdict.reason = "homoglyph_substitution"

\* One insertion, deletion, substitution or adjacent transposition.
DLInsert(s) ==
    IF Len(s) >= MaxLen THEN {}
    ELSE {SubSeq(s, 1, i) \o <<c>> \o SubSeq(s, i + 1, Len(s)) :
             i \in 0..Len(s), c \in DLAlphabet}
DLDelete(s) ==
    {SubSeq(s, 1, i - 1) \o SubSeq(s, i + 1, Len(s)) : i \in 1..Len(s)}
DLSubstitute(s) == {[s EXCEPT ![i] = c] : i \in 1..Len(s), c \in DLAlphabet}
DLTranspose(s) ==
    {[s EXCEPT ![i] = s[i + 1], ![i + 1] = s[i]] : i \in 1..(Len(s) - 1)}

OneEdit ==
    [s \in DLStrings |->
        DLInsert(s) \cup DLDelete(s) \cup DLSubstitute(s) \cup DLTranspose(s)]

\* The strings at most k edits away from a.
RECURSIVE WithinEdits(_, _)
WithinEdits(a, k) ==
    IF k = 0 THEN {a}
    ELSE LET S == WithinEdits(a, k - 1) IN S \cup UNION {OneEdit[s] : s \in S}

EditBalls == [a \in DLStrings |-> [k \in 0..MaxLen |-> WithinEdits(a, k)]]

\* The least number of unit-cost edits that turn a into b.
EditDistance(a, b) ==
    CHOOSE k \in 0..MaxLen :
        /\ b \in EditBalls[a][k]
        /\ \A j \in 0..(k - 1) : b \notin EditBalls[a][j]

\* y is x with one character removed.
OneRemoved(x, y) ==
    /\ Len(x) = Len(y) + 1
    /\ \E i \in 1..Len(x) : y = SubSeq(x, 1, i - 1) \o SubSeq(x, i + 1, Len(x))

\* x and y are at most one edit apart.
WithinOne(x, y) ==
    \/ x = y
    \/ /\ Len(x) = Len(y)
       /\ \E i \in 1..Len(x) : \A j \in 1..Len(x) : j # i => x[j] = y[j]
    \/ /\ Len(x) = Len(y)
       /\ \E i \in 1..(Len(x) - 1) :
              /\ x[i] = y[i + 1] /\ x[i + 1] = y[i]
              /\ \A j \in 1..Len(x) : j \notin {i, i + 1} => x[j] = y[j]
    \/ OneRemoved(x, y)
    \/ OneRemoved(y, x)

\* C15: _dl_dist returns the unit-cost Damerau-Levenshtein distance; a
\* candidate with no exact and no homoglyph hit whose normalized form is
\* within one edit of a normalized base is reported suspect with reason
\* edit_distance<=1 and closest_to a base at that distance.
C15_EditDistance ==
    /\ dlout # NoneN =>
           /\ dlout[1] = EditDistance(dlin.a, dlin.b)
           /\ (dlout[1] <= 1) <=> WithinOne(dlin.a, dlin.b)
    /\ (/\ TypoReturned /\ CandGiven
        /\ CandEtld \notin BaseSet
        /\ \A b \in BaseSet : _norm(b) # _norm(CandEtld)
        /\ \E b \in BaseSet : WithinOne(_norm(b), _norm(CandEtld)))
       => /\ verdict.suspect
          /\ verdict.reason = "edit_distance<=1"
          /\ verdict.closest_to \in BaseSet
          /\ WithinOne(_norm(verdict.closest_to), _norm(CandEtld))

\* C15 witness: paypa1.com against paypal.com and another base is reported
\* with reason edit_distance<=1, closest to paypal.com.
C15_Witness ==
    /\ TypoReturned
    /\ tq.candidate_domain = D_paypa1_com
    /\ BaseList = <<D_mycompany_com, D_paypal_com>>
    /\ verdict.suspect
    /\ verdict.reason = "edit_distance<=1"
    /\ verdict.closest_to = D_paypal_com

(***************************************************************************)
(* risk_score properties (SpecRisk)                                        *)
(***************************************************************************)
Risked == rres # NoOut
AcctLower == lower(StrOr(fbag.account_status, EmptyStr))

\* C16: a feature bag with whitelist.hit true yields the final score 0,
\* whatever the other features are.
C16_AllowListZero ==
    (Risked /\ fbag.whitelist_hit = <<TRUE>>) => rres.score = 0

\* C16, amended: a feature bag with whitelist.hit true whose account status
\* is not blocked or deny yields the final score 0, whatever the other
\* features are.
C16_AllowListZeroUnlessBlocked ==
    (Risked /\ fbag.whitelist_hit = <<TRUE>> /\ AcctLower \notin {blocked, deny})
        => rres.score = 0

\* C16 witness: an allow-listed bag with no account status whose additive
\* rules add up to 140 was scored 0.
C16_Witness ==
    /\ Risked
    /\ fbag.whitelist_hit = <<TRUE>>
    /\ fbag.account_status = None
    /\ SumDeltas(AdditiveRules(fbag)) = 140
    /\ rres.score = 0

\* C17: a feature bag whose account status is blocked or deny yields a
\* final score in 90..100, also with an allow-list hit.
C17_BlockWins ==
    (Risked /\ AcctLower \in {blocked, deny}) => rres.score \in 90..100

\* C17 witness: a blocked and allow-listed bag was scored 90, and its
\* additive rules alone add up to less than 90.
C17_Witness ==
    /\ Risked
    /\ fbag.account_status = blocked
    /\ fbag.whitelist_hit = <<TRUE>>
    /\ SumDeltas(AdditiveRules(fbag)) < 90
    /\ rres.score = 90

(***************************************************************************)
(* Sender Risk Aggregator properties (SpecIntel)                           *)
(***************************************************************************)

\* The latest evaluation answered with a feature bag.
Evaluated == ires.returned /\ ires.ok

\* What a probe did leaves its feature unknown: it was skipped for lack of
\* time, it failed, or it is not configured.  For a feature read from the
\* cache this is what the probe of the writing evaluation did.
Unknown(o) == o \in {"skipped", "failed", "no_key"}

\* C18: a risk feature whose value is unknown (probe skipped, failed or not
\* configured) adds no delta to the sender risk score, neither in the
\* evaluation where it is unknown nor in a later evaluation that reads it
\* back from the cache entry that evaluation wrote.
C18_UnknownAddsNothing ==
    Evaluated =>
        /\ Unknown(ires.probes.sectxt) => RuleSecurityTxt(ires.features).delta = 0
        /\ Unknown(ires.probes.crtsh) => RuleCrtsh(ires.features).delta = 0
        /\ Unknown(ires.probes.linkedin) => RuleLinkedin(ires.features).delta = 0
        /\ Unknown(ires.probes.abuse) => RuleAbuse(ires.features).delta = 0

(***************************************************************************)
(* Pipeline properties (SpecIntel, SpecPipeline)                           *)
(***************************************************************************)

\* The run has ended.
Ended == pdoc.returned

\* C19: when scoring or decision logic raises, the pipeline falls to a safe
\* default: a decision agent step that fails or returns nothing leaves the
\* final decision of the run at ALLOW with a reason.
C19_SafeDefault ==
    Ended /\ prun.agent # "ok" => pdoc.decision = ALLOW /\ Len(pdoc.reasons) > 0

\* The HITL queue holds an entry for the run.
Queued == \E item \in hitl_queue : item.id = RunId

\* C20: every run whose final hitl status is "required" ends with an entry
\* for the run in the HITL queue, stored with status "pending", and no run
\* whose hitl status is "skipped" creates a queue entry.
C20_RequiredIsQueued ==
    Ended =>
        /\ pdoc.hitl_status = required =>
             \E item \in hitl_queue : item.id = RunId /\ item.status = "pending"
        /\ pdoc.hitl_status = skipped => ~Queued

(***************************************************************************)
(* Trust tier properties (SpecTrust)                                       *)
(***************************************************************************)

\* The at most 10 most recent verdicts of the domain.
Recent == [i \in 1..(IF Len(fstore.history) < 10 THEN Len(fstore.history) ELSE 10) |-> fstore.history[i]]
RecentBlocks == {i \in DOMAIN Recent : Recent[i] = "block"}
RecentAllows == {i \in DOMAIN Recent : Recent[i] = "allow"}

\* C21: the trust tier over the at most 10 most recent verdicts is "blocked"
\* if at least one is a block, else "trusted" if at least 3 are allows, else
\* null; when the feedback store cannot be read it is null with zero counts.
C21_TrustTier ==
    ftrust.returned =>
        IF fstore.lookup = "ok"
        THEN ftrust.tier = (IF RecentBlocks # {} THEN blocked
                            ELSE IF Cardinality(RecentAllows) >= 3 THEN trusted
                            ELSE None)
        ELSE ftrust.tier = None /\ ftrust.allows = 0 /\ ftrust.blocks = 0

\* A block older than the 10 most recent verdicts is not counted: ten
\* allows hide it.
C21_Witness ==
    /\ ftrust.returned
    /\ fstore.lookup = "ok"
    /\ Len(fstore.history) = 11
    /\ fstore.history[11] = "block"
    /\ ftrust.tier = trusted

\* C22: a domain or IP cache entry is written only after every fresh lookup
\* of that evaluation succeeded, so no later evaluation is served data from
\* a partial computation.
C22_WriteOnlyAfterSuccess ==
    Evaluated =>
        /\ ires.wrote_dom \/ ires.cache_domain_hit =>
             /\ ~Unknown(ires.probes.linkedin)
             /\ ~Unknown(ires.probes.sectxt)
             /\ ~Unknown(ires.probes.crtsh)
        /\ ires.wrote_ip \/ ires.cache_ip_hit => ~Unknown(ires.probes.abuse)

\* C23: a probe that fails, times out or is skipped for lack of time budget
\* leaves its feature unknown (None or absent, never False or 0) in the
\* evaluation that ran it, and the evaluation still returns a score.
C23_FailedProbeIsUnknown ==
    Evaluated =>
        /\ ires.score \in 0..100
        /\ ~ires.cache_domain_hit =>
             /\ Unknown(ires.probes.linkedin) => ires.features.linkedin_presence = NoneB
             /\ Unknown(ires.probes.sectxt) => ires.features.securitytxt_present = NoneB
             /\ Unknown(ires.probes.crtsh) => ires.features.crtsh_count = NoneN
        /\ ~ires.cache_ip_hit =>
             (Unknown(ires.probes.abuse) => ires.features.abuseipdb_score = NoneN)

\* A step of the sender risk aggregator that answered with a feature bag.
EvaluationStep == nev' = nev + 1 /\ ires'.ok

\* The evaluation of this step treated the domain (IP) entry as if there
\* were none: for some call it left what an evaluation without an entry
\* leaves (an expired entry that is not rewritten stays in the table).
DomMissStep ==
    \E c \in Calls :
        LET e == Evaluate(sender, now, NoItem, ip_cache, gdom, gaddr, c)
        IN /\ ires'.wrote_dom = e.response.wrote_dom
           /\ ires'.wrote_dom => dom_cache' = e.dom
           /\ ires'.features = e.response.features
           /\ ires'.probed = e.response.probed
IpMissStep ==
    \E c \in Calls :
        LET e == Evaluate(sender, now, dom_cache, NoItem, gdom, gaddr, c)
        IN /\ ires'.wrote_ip = e.response.wrote_ip
           /\ ires'.wrote_ip => ip_cache' = e.ip
           /\ ires'.features = e.response.features
           /\ ires'.probed = e.response.probed

\* C24: a cache entry written at time t with time-to-live T is served as a
\* hit by every read at a time now < t + T, and is treated exactly like a
\* miss (cache hit flag false, fresh lookups) by every read at now >= t + T.
C24_TtlHitMiss ==
    [][EvaluationStep =>
        /\ dom_cache.present =>
             IF now < dom_cache.written + DDB_TTL_DOM
             THEN /\ ires'.cache_domain_hit
                  /\ ires'.features.crtsh_count = dom_cache.crtsh_count
                  /\ ires'.features.linkedin_presence = dom_cache.linkedin_presence
             ELSE ~ires'.cache_domain_hit /\ DomMissStep
        /\ ip_cache.present =>
             IF now < ip_cache.written + DDB_TTL_IP
             THEN /\ ires'.cache_ip_hit
                  /\ ires'.features.abuseipdb_score = ip_cache.abuseipdb_score
             ELSE ~ires'.cache_ip_hit /\ IpMissStep]_vars

\* An entry written at time 0 is read at time DDB_TTL_DOM, found expired
\* and replaced by fresh lookups.
C24_Witness ==
    /\ Evaluated
    /\ ires.at = DDB_TTL_DOM
    /\ ires.dom_expired
    /\ ~ires.cache_domain_hit
    /\ ires.wrote_dom
    /\ dom_cache.written = ires.at
\* C28: an evaluation that finds a non-expired cache entry for the domain
\* (or the IP) runs no external probe for that key and does not write to
\* that cache table: entries change only after a miss or an expiry.
C28_HitIsReadOnly ==
    [][/\ dom_cache.present /\ now < dom_cache.ttl =>
            /\ dom_cache' = dom_cache
            /\ EvaluationStep => ires'.probed \cap {"linkedin", "sectxt", "crtsh"} = {}
       /\ ip_cache.present /\ now < ip_cache.ttl =>
            /\ ip_cache' = ip_cache
            /\ EvaluationStep => "abuse" \notin ires'.probed]_vars

\* A second evaluation served from both caches.
C28_Witness ==
    /\ Evaluated
    /\ nev = 2
    /\ ires.cache_domain_hit
    /\ ires.cache_ip_hit
    /\ ires.probed = {}
    /\ dom_cache.written < ires.at

(***************************************************************************)
(* Sender graph properties (SpecGraph)                                     *)
(***************************************************************************)

\* The evaluations whose update of the domain item has been applied.
Updated == {p \in Procs : gpc[p] \notin {"begin", "update_dom"}}
SeenCount == IF gdom.present THEN gdom.seen_count ELSE 0

\* C25: for N evaluations of emails from the same sender domain, in any
\* interleaving of their graph updates and reads, seen_count ends exactly N
\* higher than it started: no increment is lost.
C25_NoLostIncrement ==
    /\ SeenCount = gstart + Cardinality(Updated)
    /\ (\A p \in Procs : gpc[p] = "done") => SeenCount = gstart + MaxProcs

\* All evaluations are done after their updates interleaved: the one that
\* updated first read the item back after the other's update.
C25_Witness ==
    /\ \A p \in Procs : gpc[p] = "done"
    /\ \E p \in Procs : gl[p].created /\ gl[p].dom.seen_count = MaxProcs
    /\ SeenCount = gstart + MaxProcs

\* C30: the evaluation whose increment creates the domain's record reports
\* graph.first_time_domain = true and an evaluation for a domain that
\* already has a record reports false, in every interleaving.
C30_FirstTimeFlag ==
    \A p \in Procs :
        gpc[p] = "done" => gl[p].features.graph_first_time_domain = <<gl[p].created>>

(***************************************************************************)
(* Sender risk score: the additive rules (SpecRisk)                        *)
(***************************************************************************)

\* The fixed delta of each rule that applies to the feature bag of the call.
AbuseDelta ==
    IF fbag.abuseipdb_score = NoneN THEN 0
    ELSE IF fbag.abuseipdb_score[1] >= 50 THEN 40
    ELSE IF fbag.abuseipdb_score[1] > 0 THEN fbag.abuseipdb_score[1] \div 2
    ELSE 0
DeltaSum ==
    AbuseDelta
    + (IF fbag.graph_first_time_domain = <<TRUE>> THEN 20 ELSE 0)
    + (IF fbag.graph_first_time_addr = <<TRUE>> THEN 10 ELSE 0)
    - (IF fbag.graph_domain_seen # NoneN /\ fbag.graph_domain_seen[1] >= 10 THEN 5 ELSE 0)
    + (IF fbag.securitytxt_present = <<FALSE>> THEN 5 ELSE 0)
    + (IF fbag.crtsh_count # NoneN /\ fbag.crtsh_count[1] < 5 THEN 10 ELSE 0)
    + (IF fbag.linkedin_presence = <<FALSE>> THEN 5 ELSE 0)
    + (IF fbag.org_match = <<FALSE>> /\ fbag.org_reason \in {"email_regex_fail", "missing_email"} THEN 20 ELSE 0)
    + (IF fbag.typosquatting_suspect = <<TRUE>> THEN 30 ELSE 0)
NoOverride == fbag.whitelist_hit # <<TRUE>> /\ fbag.account_status = None

\* C26: with no allow-list hit and no account status risk_score is the sum
\* of the fixed deltas of the rules that apply, clamped to [0,100]; with
\* overrides applied the score is still an integer in [0,100].
C26_SumOfDeltasClamped ==
    Risked =>
        /\ rres.score \in 0..100
        /\ NoOverride =>
             rres.score = (IF DeltaSum < 0 THEN 0 ELSE IF DeltaSum > 100 THEN 100 ELSE DeltaSum)

\* Every rule applies: the deltas sum to 140 and the score is clamped.
C26_Witness ==
    /\ Risked
    /\ NoOverride
    /\ DeltaSum = 140
    /\ rres.score = 100

(***************************************************************************)
(* Distinct-pattern counts (SpecScorer)                                    *)
(***************************************************************************)

\* The number of distinct patterns of a list that match the text.
DistinctPatterns(patterns, text) ==
    Cardinality({patterns[k] : k \in {n \in 1..Len(patterns) : re_search_hit(patterns[n], text)}})

\* The number of distinct links found in the text.
DistinctUrls(text) ==
    LET urls == extract_urls(text) IN Cardinality({urls[i] : i \in 1..Len(urls)})

\* C27: for each of the five categories, suspicious_link included, the
\* recorded intensity is the number of distinct patterns of the category
\* that match the text (for links: of distinct links), never the number of
\* occurrences, so a repeated item does not raise it.
C27_DistinctPatternCount ==
    cpc = "returned" =>
        LET text == compact.subject \o compact.body
        IN /\ raw.credential_language =
                  DistinctPatterns(CREDENTIAL_INTENT_TERMS \o SUSPICIOUS_TERMS, text)
           /\ raw.urgency_language = DistinctPatterns(URGENCY_TERMS, text)
           /\ raw.manipulative_tone = DistinctPatterns(MANIPULATIVE_TONE_TERMS, text)
           /\ raw.attachment_reference = DistinctPatterns(ATTACHMENT_TERMS, text)
           /\ raw.suspicious_link = DistinctUrls(text)

(***************************************************************************)
(* Phishing is never allowed (SpecDecide)                                  *)
(***************************************************************************)

\* The input is classified phishing (in any letter case) with a confidence
\* of at least 0.50, and the trust tier is not "blocked".
PhishAtLeastHalf ==
    /\ lower(sig.classification) = phishing
    /\ sig.confidence >= 500
    /\ sig.feedback_trust_tier # blocked

\* C29: for the trust tiers trusted and none and every sender risk, PHI
\* count and prior decision, an input classified phishing with confidence
\* >= 0.50 is never given the verdict ALLOW.
C29_PhishingNeverAllowed ==
    (Returned /\ PhishAtLeastHalf) => out.decision # ALLOW

\* C29 witness: a trusted sender's email classified phishing at exactly
\* 0.50, with PHI, risk 0 and prior decision ALLOW, was quarantined.
C29_Witness ==
    /\ Returned /\ PhishAtLeastHalf
    /\ sig.feedback_trust_tier = trusted
    /\ sig.confidence = 500 /\ sig.sender_risk = 0 /\ sig.phi_entities > 0
    /\ sig.prior_decision = ALLOW
    /\ out.decision = QUARANTINE

====
